---- MODULE Spec2Model ----
(***************************************************************************)
(* Model of the PDF question-extraction pipeline of Anshul439/Scraper:     *)
(* splitPdfIntoChunks (Segmenter), runWithConcurrency (Dispatcher),        *)
(* processChunk (Unit Processor), the reconciliation loop of               *)
(* processPdfWithClaude (Reconciler) and the filename year pre-filter.     *)
(*                                                                         *)
(* Strings whose characters the code inspects (file names, years, question *)
(* text) are sequences of one-character strings.                           *)
(***************************************************************************)
EXTENDS Integers, Sequences, FiniteSets, TLC

VARIABLES
    \* ---- splitPdfIntoChunks ----
    totalPages,       \* srcDoc.getPageCount()
    pagesPerChunk,    \* the pagesPerChunk argument
    start,            \* loop variable of the for loop (0-based page index)
    out,              \* the array of { fromPage, toPage } being built
    segPc,            \* "loop" | "done"
    \* ---- runWithConcurrency ----
    impl,             \* which runWithConcurrency: "rethrow" (utils/concurrency.ts) | "capture"
    worker,           \* the worker passed in: "process" (any function) | "processChunk"
    items,            \* the items array; for "process" the behaviour of process on each item
    concurrency,      \* the concurrency argument
    idx,              \* let idx = 0: next index to claim
    results,          \* the results array (0-based domain), NoResult = hole
    runner,           \* runner id -> [pc, i]: pc is "await" | "returned" | "rejected"
    invoked,          \* history: index -> number of times worker was invoked on it
    settled,          \* history: index -> number of those invocations that finished
    dpc,              \* "idle" | "call" | "running" | "returned" | "threw": the run as its caller sees it
    \* ---- processChunk (closure state of processPdfWithClaude) ----
    maxRetries,       \* options.maxRetriesPerChunk ?? 1
    attempt,          \* index -> let attempt
    lastErr,          \* index -> let lastErr
    calls,            \* history: index -> number of client.messages.create calls made
    received,         \* history: index -> the responses the service gave, in order
    delays,           \* history: index -> the backoff waits (ms) slept, in order
    globalQCounter,   \* let globalQCounter = 0 (shared by all processChunk invocations)
    service,          \* index -> the responses the external service may give for that chunk
    \* ---- processPdfWithClaude ----
    docPc,            \* "idle" | "filter" | "split" | "chunks" | "done"
    docPages,         \* page count of the PDF at filePath
    chunks,           \* const chunks = await splitPdfIntoChunks(...)
    returned,         \* history: index -> what processChunk returned for that chunk
    result,           \* the DirectPdfResult being built
    console,          \* the console.log lines of the loop over chunkResults about skips
    \* ---- year filter ----
    fltPc,            \* "idle" | "batch" | "doc" | "filter" | "checked"
    fileName,
    allowedYearsIn,   \* the configured allowedYears
    strictYearFiltering,
    batchYears,       \* examContextInput.allowedYears as processPdfWithClaude receives it
    allowedYears,     \* examContext.allowedYears of processPdfWithClaude
    filterCheck,      \* the value returned by shouldProcessPdf
    \* ---- page normalisation of one item ----
    pgPc,             \* "idle" | "input" | "done"
    pgChunk,          \* the chunk { fromPage, toPage }
    pgRaw,            \* q.pageNumber ?? q.page ?? q.page_no
    pgOut,            \* normalizedPage
    \* ---- de-duplication loop ----
    ddPc,             \* "idle" | "input" | "done"
    accumulatedQuestions,
    deduped,
    \* ---- processPdfsDirectly ----
    batPc,            \* "idle" | "call" | "files" | "done"
    pdfFiles,         \* findPdfFiles(inputDir): what each file found is
    maxFiles,         \* options.maxFiles, 0 when absent
    normalizedResults,
    batch,            \* the BatchProcessResult being built
    \* ---- discoverAllPdfsRecursive ----
    crPc,             \* "idle" | "loop" | "fetch" | "done"
    site,             \* what the pages of the crawled site hold: links and PDF links
    maxDepth,         \* opts.maxDepth
    maxPages,         \* opts.maxPages
    maxPdfsToFind,    \* opts.maxPdfsToFind
    queue,            \* const queue: Array<{ url, depth }>
    seenPages,        \* const seenPages = new Set<string>()
    discoveredPdfs,   \* const discoveredPdfs = new Set<string>(), in insertion order
    pagesVisited,     \* let pagesVisited = 0
    current,          \* the { url, depth } whose fetchHtml is awaited
    fetched,          \* history: the URLs fetchHtml was called with, in order
    depths,           \* history: the depth of the queue entry of each of these calls
    enqueued,         \* history: the URLs put on the queue, in order
    crawlOut          \* the array returned

segVars  == <<totalPages, pagesPerChunk, start, out, segPc>>
dispVars == <<impl, worker, items, concurrency, idx, results, runner, invoked, settled, dpc>>
chunkVars == <<maxRetries, attempt, lastErr, calls, received, delays, globalQCounter,
              service>>
docVars  == <<docPc, docPages, chunks, returned, result, console>>
fltVars  == <<fltPc, fileName, allowedYearsIn, strictYearFiltering, batchYears,
             allowedYears, filterCheck>>
pgVars   == <<pgPc, pgChunk, pgRaw, pgOut>>
ddVars   == <<ddPc, accumulatedQuestions, deduped>>
batVars  == <<batPc, pdfFiles, maxFiles, normalizedResults, batch>>
crawlVars == <<crPc, site, maxDepth, maxPages, maxPdfsToFind, queue, seenPages,
              discoveredPdfs, pagesVisited, current, fetched, depths, enqueued,
              crawlOut>>
vars == <<segVars, dispVars, chunkVars, docVars, fltVars, pgVars, ddVars, batVars,
          crawlVars>>

(***************************************************************************)
(* Bounds of the model                                                     *)
(***************************************************************************)
MaxPages == 9            \* page counts 0..MaxPages for the Segmenter
MaxPagesPerChunk == 6    \* chunk sizes 1..MaxPagesPerChunk
MaxItems == 3            \* items handed to runWithConcurrency
MaxConcurrency == 3      \* concurrency bounds 0..MaxConcurrency
MaxRetriesBound == 3     \* maxRetriesPerChunk in 0..MaxRetriesBound for a single unit
MaxDocPages == 2         \* page counts 0..MaxDocPages of a processed document
MaxDocRetries == 1       \* maxRetriesPerChunk in 0..MaxDocRetries for a whole document
MaxYears == 2            \* length of the allowedYears list
MaxFromPage == 17        \* first page of the unit in the page normalisation
MaxUnitLen == 8          \* length of the unit in the page normalisation
MaxRawPage == 21         \* raw page numbers 0..MaxRawPage
MaxAccumulated == 3      \* length of accumulatedQuestions in the dedup loop
MaxFiles == 2            \* number of PDF files found by a batch
MaxCrawlDepth == 2       \* opts.maxDepth in 0..MaxCrawlDepth
MaxCrawlPages == 4       \* opts.maxPages in 1..MaxCrawlPages
MaxPdfLimit == 3         \* opts.maxPdfsToFind in 1..MaxPdfLimit

Min(a, b) == IF a < b THEN a ELSE b

(***************************************************************************)
(* Values for the parts of the state a specification does not use          *)
(***************************************************************************)
NoResult == [kind |-> "empty"]      \* a hole of the results array (undefined)

SegIdle ==
    /\ totalPages = 0 /\ pagesPerChunk = 1 /\ start = 0 /\ out = <<>>
    /\ segPc = "idle"

DispIdle ==
    /\ impl = "capture" /\ worker = "process" /\ items = <<>>
    /\ concurrency = 0 /\ idx = 0 /\ results = <<>> /\ runner = <<>>
    /\ invoked = <<>> /\ settled = <<>> /\ dpc = "idle"

ChunkIdle ==
    /\ maxRetries = 0 /\ attempt = <<>> /\ lastErr = <<>> /\ calls = <<>>
    /\ received = <<>> /\ delays = <<>> /\ globalQCounter = 0 /\ service = <<>>

NoReason == [from |-> "unset", text |-> "unset"]   \* metadata.skippedReason undefined

DocIdle ==
    /\ docPc = "idle" /\ docPages = 0 /\ chunks = <<>> /\ returned = <<>>
    /\ result = [success |-> FALSE, questions |-> <<>>, errors |-> <<>>,
                 skippedReason |-> NoReason]
    /\ console = <<>>

FltIdle ==
    /\ fltPc = "idle" /\ fileName = <<>> /\ allowedYearsIn = <<>>
    /\ strictYearFiltering = FALSE
    /\ batchYears = <<>> /\ allowedYears = <<>>
    /\ filterCheck = [shouldProcess |-> TRUE, reason |-> "none", detectedYear |-> <<>>]

PgIdle ==
    /\ pgPc = "idle" /\ pgChunk = [fromPage |-> 1, toPage |-> 1]
    /\ pgRaw = [t |-> "absent", n |-> 0, s |-> <<>>]
    /\ pgOut = [t |-> "absent", n |-> 0, s |-> <<>>]

DdIdle ==
    /\ ddPc = "idle" /\ accumulatedQuestions = <<>> /\ deduped = <<>>

\* const result: BatchProcessResult = { success: true, results: [], ... }
EmptyBatch ==
    [success |-> TRUE, totalQuestions |-> 0, totalFiles |-> 0, skippedFiles |-> 0,
     errors |-> <<>>]

BatIdle ==
    /\ batPc = "idle" /\ pdfFiles = <<>> /\ maxFiles = 0
    /\ normalizedResults = <<>> /\ batch = EmptyBatch

NoEntry == [url |-> [host |-> "", path |-> <<>>], depth |-> 0]

CrawlIdle ==
    /\ crPc = "idle" /\ site = <<>> /\ maxDepth = 0 /\ maxPages = 0 /\ maxPdfsToFind = 0
    /\ queue = <<>> /\ seenPages = {} /\ discoveredPdfs = <<>> /\ pagesVisited = 0
    /\ current = NoEntry /\ fetched = <<>> /\ depths = <<>> /\ enqueued = <<>>
    /\ crawlOut = <<>>

(***************************************************************************)
(* Segmenter: splitPdfIntoChunks                                           *)
(***************************************************************************)
\* One iteration of the for loop: the { fromPage, toPage } pushed for `start`.
ChunkAtOverlapping(st, total, perChunk) ==
    LET end == Min(st + perChunk, total - 1)
    IN  [fromPage |-> st + 1, toPage |-> end + 1]

ChunkAt(st, total, perChunk) ==
    LET end == Min(st + perChunk - 1, total - 1)
    IN  [fromPage |-> st + 1, toPage |-> end + 1]

RECURSIVE SplitFrom(_, _, _)
SplitFrom(st, total, perChunk) ==
    IF st < total
    THEN <<ChunkAt(st, total, perChunk)>> \o SplitFrom(st + perChunk, total, perChunk)
    ELSE <<>>

\* The whole function: the chunks of a document of `total` pages.
SplitPdfIntoChunks(total, perChunk) == SplitFrom(0, total, perChunk)

SegInit ==
    /\ totalPages \in 0..MaxPages
    /\ pagesPerChunk \in 1..MaxPagesPerChunk
    /\ start = 0
    /\ out = <<>>
    /\ segPc = "loop"
    /\ DispIdle /\ ChunkIdle /\ DocIdle /\ FltIdle /\ PgIdle /\ DdIdle /\ BatIdle /\ CrawlIdle

\* for (let start = 0; start < totalPages; start += pagesPerChunk) { ... out.push(...) }
SplitLoop ==
    /\ segPc = "loop"
    /\ start < totalPages
    /\ out' = Append(out, ChunkAt(start, totalPages, pagesPerChunk))
    /\ start' = start + pagesPerChunk
    /\ UNCHANGED <<totalPages, pagesPerChunk, segPc>>
    /\ UNCHANGED <<dispVars, chunkVars, docVars, fltVars, pgVars, ddVars, batVars, crawlVars>>

\* loop exit: return out
SplitReturn ==
    /\ segPc = "loop"
    /\ ~(start < totalPages)
    /\ segPc' = "done"
    /\ UNCHANGED <<totalPages, pagesPerChunk, start, out>>
    /\ UNCHANGED <<dispVars, chunkVars, docVars, fltVars, pgVars, ddVars, batVars, crawlVars>>

SegNext == SplitLoop \/ SplitReturn

SpecSeg == SegInit /\ [][SegNext]_vars

\* C1: for every page count P >= 1 and chunk size S >= 1 the returned units
\* partition [1,P]: the first starts at page 1, each next unit starts at the
\* previous toPage + 1, the last ends at P, every unit spans at most S pages
\* and only the last unit may span fewer than S pages.
SegmentationCoverage ==
    (segPc = "done" /\ totalPages >= 1) =>
        /\ Len(out) >= 1
        /\ out[1].fromPage = 1
        /\ out[Len(out)].toPage = totalPages
        /\ \A k \in 1..Len(out) :
              /\ out[k].fromPage <= out[k].toPage
              /\ out[k].toPage - out[k].fromPage + 1 <= pagesPerChunk
              /\ k < Len(out) => out[k + 1].fromPage = out[k].toPage + 1
              /\ k < Len(out) => out[k].toPage - out[k].fromPage + 1 = pagesPerChunk

\* A document split into several units of which the last is shorter.
SegmentationCoverageWitness ==
    /\ segPc = "done"
    /\ Len(out) >= 3
    /\ out[Len(out)].toPage - out[Len(out)].fromPage + 1 < pagesPerChunk

(***************************************************************************)
(* Dispatcher: runWithConcurrency                                          *)
(*                                                                         *)
(* JavaScript runs each continuation to completion: from the moment a      *)
(* worker's promise settles, the runner's `results[i] = ...`, its next     *)
(* `idx++`, the call of worker on the next item and, when the last runner  *)
(* ends, the settling of Promise.all are one step.                         *)
(* Arrays are sequences: index i of the code is position i + 1.            *)
(***************************************************************************)
At(arr, i) == arr[i + 1]

\* arr[i] = v on a JavaScript array: a write past the end leaves holes.
RECURSIVE Holes(_)
Holes(n) == IF n <= 0 THEN <<>> ELSE <<NoResult>> \o Holes(n - 1)

SetAt(arr, i, v) ==
    IF i + 1 <= Len(arr)
    THEN [arr EXCEPT ![i + 1] = v]
    ELSE arr \o Holes(i - Len(arr)) \o <<v>>

\* a bound below 1 taken as 1
NumRunnersAtLeastOne(conc, n) == IF conc < 1 THEN Min(1, n) ELSE Min(conc, n)

\* Math.min(concurrency, items.length) runners are started.
NumRunnersPerItem(conc, n) == n

NumRunners(conc, n) == IF Min(conc, n) < 0 THEN 0 ELSE Min(conc, n)

\* const results = [] (utils/concurrency.ts) | new Array(items.length)
InitialResults(im, n) == IF im = "rethrow" THEN <<>> ELSE Holes(n)

\* Where the runner that awaited index i puts the value res.
StoreInCompletionOrder(arr, i, res) == Append(SelectSeq(arr, LAMBDA x : x # NoResult), res)

StoreResult(arr, i, res) == SetAt(arr, i, res)

\* What process(items[i], i) does for the generic worker: the item says it.
ProcessValue(i) == [kind |-> "value", of |-> i]
ProcessError(i) == [kind |-> "thrown", of |-> i]
\* results[i] = { error: (err as Error).message || String(err) }
ErrorEntry(err) == [kind |-> "error", error |-> err]

Zeros(n) == [k \in 1..n |-> 0]

\* runWithConcurrency(its, w, conc) up to `await Promise.all(...)`: every runner
\* claims its first index and calls the worker on it.
StartRun(im, its, w, conc) ==
    LET n == NumRunners(conc, Len(its)) IN
    /\ impl' = im /\ worker' = w /\ items' = its /\ concurrency' = conc
    /\ results' = InitialResults(im, Len(its))
    /\ runner' = [r \in 1..n |-> [pc |-> "await", i |-> r - 1]]
    /\ idx' = n
    /\ dpc' = IF n = 0 THEN "returned" ELSE "running"
    /\ settled' = Zeros(Len(its))
    /\ invoked' = [k \in 1..Len(its) |-> IF k <= n THEN 1 ELSE 0]

\* a runner that also stops, and rejects the run, on a document skip
StopsOnDocumentSkip(outcome) ==
    \/ outcome.kind = "thrown" /\ impl = "rethrow"
    \/ worker = "processChunk" /\ outcome.skip /\ outcome.skipScope = "document"

\* Whether the runner stops on this outcome of its worker call (`throw err`).
Rethrows(outcome) == outcome.kind = "thrown" /\ impl = "rethrow"

\* The index the runner claims after this outcome (`const i = idx++`), -1 when
\* it claims none or the index is past the end.
NextClaimed(outcome) == IF ~Rethrows(outcome) /\ idx < Len(items) THEN idx ELSE 0 - 1

\* The runner r, whose worker call on index i has settled with `outcome`
\* ([kind |-> "thrown" ...] when it rejected), continues: store or catch, then
\* `const i = idx++` and the call of worker on the next item.
RunnerContinue(r, outcome) ==
    LET i == runner[r].i
        stored == IF outcome.kind = "thrown" THEN ErrorEntry(outcome.of) ELSE outcome
        runner1 == [runner EXCEPT ![r] =
                       IF Rethrows(outcome) THEN [pc |-> "rejected", i |-> i]
                       ELSE IF idx >= Len(items) THEN [pc |-> "returned", i |-> idx]
                       ELSE [pc |-> "await", i |-> idx]]
    IN
    /\ settled' = [settled EXCEPT ![i + 1] = @ + 1]
    /\ results' = IF Rethrows(outcome) THEN results ELSE StoreResult(results, i, stored)
    /\ idx' = IF Rethrows(outcome) THEN idx ELSE idx + 1
    /\ runner' = runner1
    /\ invoked' = [k \in DOMAIN invoked |->
                      IF k - 1 = NextClaimed(outcome) THEN invoked[k] + 1 ELSE invoked[k]]
    /\ dpc' = IF dpc # "running" THEN dpc
              ELSE IF Rethrows(outcome) THEN "threw"
              ELSE IF \A q \in DOMAIN runner1 : runner1[q].pc = "returned" THEN "returned"
              ELSE dpc
    /\ UNCHANGED <<impl, worker, items, concurrency>>

BehaviourSeqs(n) == [1..n -> {"ok", "throw"}]

DispInit ==
    /\ impl \in {"rethrow", "capture"}
    /\ worker = "process"
    /\ \E n \in 0..MaxItems : items \in BehaviourSeqs(n)
    /\ concurrency \in 0..MaxConcurrency
    /\ idx = 0 /\ results = <<>> /\ runner = <<>>
    /\ invoked = <<>> /\ settled = <<>>
    /\ dpc = "call"
    /\ SegIdle /\ ChunkIdle /\ DocIdle /\ FltIdle /\ PgIdle /\ DdIdle /\ BatIdle /\ CrawlIdle

\* The caller calls runWithConcurrency(items, process, concurrency).
RunStart ==
    /\ dpc = "call"
    /\ StartRun(impl, items, worker, concurrency)
    /\ UNCHANGED <<segVars, chunkVars, docVars, fltVars, pgVars, ddVars, batVars, crawlVars>>

\* process(items[i], i) resolves; its runner continues.
ProcessResolves(r) ==
    /\ worker = "process"
    /\ runner[r].pc = "await"
    /\ At(items, runner[r].i) = "ok"
    /\ RunnerContinue(r, ProcessValue(runner[r].i))
    /\ UNCHANGED <<segVars, chunkVars, docVars, fltVars, pgVars, ddVars, batVars, crawlVars>>

\* process(items[i], i) throws (its promise rejects); its runner continues in
\* its catch block.
ProcessThrows(r) ==
    /\ worker = "process"
    /\ runner[r].pc = "await"
    /\ At(items, runner[r].i) = "throw"
    /\ RunnerContinue(r, ProcessError(runner[r].i))
    /\ UNCHANGED <<segVars, chunkVars, docVars, fltVars, pgVars, ddVars, batVars, crawlVars>>

DispNext ==
    \/ RunStart
    \/ \E r \in DOMAIN runner : ProcessResolves(r)
    \/ \E r \in DOMAIN runner : ProcessThrows(r)

SpecDisp == DispInit /\ [][DispNext]_vars

\* Invocations of the worker that have started and not yet finished.
RECURSIVE SumSeq(_)
SumSeq(s) == IF s = <<>> THEN 0 ELSE Head(s) + SumSeq(Tail(s))
InFlight == SumSeq(invoked) - SumSeq(settled)

ThrowingIndices == {i \in 0..(Len(items) - 1) : At(items, i) = "throw"}


\* C2: for every concurrency bound K >= 1 and every subset of throwing
\* invocations the run completes and returns to its caller an array of exactly
\* N entries, an error entry exactly at each throwing index and the item's own
\* result at every other index; no exception escapes to the caller and no
\* runner stops while items are left.
DispatcherIsolation ==
    (concurrency >= 1 /\ dpc # "call") =>
        /\ dpc # "threw"
        /\ dpc = "running" => \E r \in DOMAIN runner : runner[r].pc = "await"
        /\ dpc = "returned" =>
              /\ Len(results) = Len(items)
              /\ \A i \in 0..(Len(items) - 1) :
                    IF i \in ThrowingIndices
                    THEN At(results, i).kind = "error"
                    ELSE At(results, i) = ProcessValue(i)

\* C3: in every state of a run with bound K >= 1 over N items the number of
\* process invocations started and not yet finished is at most min(K, N).
ConcurrencyBound ==
    concurrency >= 1 => InFlight <= Min(concurrency, Len(items))

\* A run over more items than runners, all runners busy after some
\* invocation has already finished.
ConcurrencyBoundWitness ==
    /\ dpc = "running"
    /\ concurrency = 2 /\ Len(items) = 3
    /\ InFlight = 2
    /\ SumSeq(settled) >= 1

(***************************************************************************)
(* Year filter: extractYearFromFilename, normalizeYears, shouldProcessPdf  *)
(***************************************************************************)
Digits == <<"0", "1", "2", "3", "4", "5", "6", "7", "8", "9">>
LowerLetters == <<"a", "b", "c", "d", "e", "f", "g", "h", "i", "j", "k", "l", "m",
                  "n", "o", "p", "q", "r", "s", "t", "u", "v", "w", "x", "y", "z">>
UpperLetters == <<"A", "B", "C", "D", "E", "F", "G", "H", "I", "J", "K", "L", "M",
                  "N", "O", "P", "Q", "R", "S", "T", "U", "V", "W", "X", "Y", "Z">>
Range(s) == {s[k] : k \in DOMAIN s}

IsDigit(c) == c \in Range(Digits)
\* \w of a JavaScript regular expression
IsWordChar(c) == IsDigit(c) \/ c \in Range(LowerLetters) \/ c \in Range(UpperLetters) \/ c = "_"
\* whitespace removed by String.prototype.trim
IsSpace(c) == c \in {" ", "\t", "\n"}
\* the i flag
ToLower(c) ==
    IF c \in Range(UpperLetters)
    THEN LowerLetters[CHOOSE k \in DOMAIN UpperLetters : UpperLetters[k] = c]
    ELSE c
DigitValue(c) == (CHOOSE k \in DOMAIN Digits : Digits[k] = c) - 1
\* Number(y) / parseInt(y) of a string of digits
RECURSIVE ToNumber(_)
ToNumber(s) ==
    IF s = <<>> THEN 0 ELSE 10 * ToNumber(SubSeq(s, 1, Len(s) - 1)) + DigitValue(s[Len(s)])

AllDigits(s) == \A k \in DOMAIN s : IsDigit(s[k])
WordAt(s, p) == p \in DOMAIN s /\ IsWordChar(s[p])
\* \b between positions p - 1 and p
BoundaryAt(s, p) == WordAt(s, p - 1) # WordAt(s, p)
\* the literal `word` (lower case) at position p, ignoring case
LiteralAt(s, p, word) ==
    /\ p + Len(word) - 1 <= Len(s)
    /\ \A k \in DOMAIN word : ToLower(s[p + k - 1]) = word[k]
\* number of digits starting at p, at most `most`
RECURSIVE DigitRun(_, _, _)
DigitRun(s, p, most) ==
    IF most = 0 \/ p > Len(s) \/ ~IsDigit(s[p]) THEN 0 ELSE 1 + DigitRun(s, p + 1, most - 1)
\* [_-]? at p: the position after it
AfterSeparator(s, p) == IF p \in DOMAIN s /\ s[p] \in {"_", "-"} THEN p + 1 ELSE p

NoMatch == <<>>       \* null

\* match[1] of the leftmost match of each pattern, NoMatch when there is none
FirstAt(s, M(_), G(_)) ==
    IF \E p \in DOMAIN s : M(p)
    THEN G(CHOOSE p \in DOMAIN s : M(p) /\ \A q \in 1..(p - 1) : ~M(q))
    ELSE NoMatch

\* /\b(20[0-9]{2})\b/
MatchFourDigit(s) ==
    LET M(p) == /\ p + 3 <= Len(s)
                /\ s[p] = "2" /\ s[p + 1] = "0" /\ IsDigit(s[p + 2]) /\ IsDigit(s[p + 3])
                /\ BoundaryAt(s, p) /\ BoundaryAt(s, p + 4)
        G(p) == SubSeq(s, p, p + 3)
    IN  FirstAt(s, M, G)

\* /\b([0-9]{2})\b/
MatchTwoDigit(s) ==
    LET M(p) == /\ p + 1 <= Len(s)
                /\ IsDigit(s[p]) /\ IsDigit(s[p + 1])
                /\ BoundaryAt(s, p) /\ BoundaryAt(s, p + 2)
        G(p) == SubSeq(s, p, p + 1)
    IN  FirstAt(s, M, G)

\* /year[_-]?([0-9]{2,4})/i
MatchYearWord(s) ==
    LET D(p) == AfterSeparator(s, p + 4)
        M(p) == LiteralAt(s, p, <<"y", "e", "a", "r">>) /\ DigitRun(s, D(p), 4) >= 2
        G(p) == SubSeq(s, D(p), D(p) + DigitRun(s, D(p), 4) - 1)
    IN  FirstAt(s, M, G)

\* /([0-9]{4})[_-]?paper/i
MatchPaperWord(s) ==
    LET M(p) == /\ DigitRun(s, p, 4) = 4
                /\ LiteralAt(s, AfterSeparator(s, p + 4), <<"p", "a", "p", "e", "r">>)
        G(p) == SubSeq(s, p, p + 3)
    IN  FirstAt(s, M, G)

\* A two-digit year NN becomes 20NN when NN <= 30 and 19NN otherwise.
ExpandTwoDigit(y) == IF ToNumber(y) <= 30 THEN <<"2", "0">> \o y ELSE <<"1", "9">> \o y

ExtractYearFromFilename(name) ==
    LET ms == <<MatchFourDigit(name), MatchTwoDigit(name), MatchYearWord(name),
                MatchPaperWord(name)>>
    IN  IF \A k \in DOMAIN ms : ms[k] = NoMatch THEN NoMatch
        ELSE LET year == ms[CHOOSE k \in DOMAIN ms :
                               ms[k] # NoMatch /\ \A j \in 1..(k - 1) : ms[j] = NoMatch]
             IN  IF Len(year) = 2 THEN ExpandTwoDigit(year) ELSE year

\* String.prototype.trim
RECURSIVE TrimLeft(_)
TrimLeft(s) == IF s # <<>> /\ IsSpace(Head(s)) THEN TrimLeft(Tail(s)) ELSE s
RECURSIVE TrimRight(_)
TrimRight(s) ==
    IF s # <<>> /\ IsSpace(s[Len(s)]) THEN TrimRight(SubSeq(s, 1, Len(s) - 1)) ELSE s
Trim(s) == TrimRight(TrimLeft(s))

NormalizeYearAlways20(y) == IF Len(y) = 2 /\ AllDigits(y) THEN <<"2", "0">> \o y ELSE y

\* the last .map of normalizeYears: /^\d{2}$/.test(y)
NormalizeYear(y) == IF Len(y) = 2 /\ AllDigits(y) THEN ExpandTwoDigit(y) ELSE y

RECURSIVE MapSeq(_, _)
MapSeq(F(_), s) == IF s = <<>> THEN <<>> ELSE <<F(Head(s))>> \o MapSeq(F, Tail(s))

NormalizeYears(years) ==
    IF years = <<>> THEN <<>>
    ELSE MapSeq(NormalizeYear, SelectSeq(MapSeq(Trim, years), LAMBDA y : y # <<>>))

NoDetail == <<>>      \* reason / detectedYear undefined

ShouldProcessPdfLenient(name, allowed, strict) ==
    IF allowed = <<>> \/ ExtractYearFromFilename(name) = NoMatch
    THEN [shouldProcess |-> TRUE, reason |-> "none", detectedYear |-> NoDetail]
    ELSE [shouldProcess |-> ExtractYearFromFilename(name) \in Range(allowed),
          reason |-> "year checked", detectedYear |-> ExtractYearFromFilename(name)]

ShouldProcessPdf(name, allowed, strict) ==
    LET detectedYear == ExtractYearFromFilename(name) IN
    IF allowed = <<>>
    THEN [shouldProcess |-> TRUE, reason |-> "none", detectedYear |-> NoDetail]
    ELSE IF detectedYear = NoMatch /\ ~strict
    THEN [shouldProcess |-> TRUE, reason |-> "No year detected, strict filtering disabled",
          detectedYear |-> NoDetail]
    ELSE IF detectedYear = NoMatch /\ strict
    THEN [shouldProcess |-> FALSE,
          reason |-> "No year detected in filename, strict filtering enabled",
          detectedYear |-> NoDetail]
    ELSE IF detectedYear # NoMatch /\ detectedYear \in Range(allowed)
    THEN [shouldProcess |-> TRUE, reason |-> "Year is in allowed years",
          detectedYear |-> detectedYear]
    ELSE IF detectedYear # NoMatch
    THEN [shouldProcess |-> FALSE, reason |-> "Year not in allowed years",
          detectedYear |-> detectedYear]
    ELSE [shouldProcess |-> FALSE, reason |-> "Unknown filtering condition",
          detectedYear |-> NoDetail]

\* File names and configured years the filter is run on.
FileNames ==
    { <<"c", "g", "l", "-", "2", "0", "2", "3", ".", "p", "d", "f">>,
      <<"c", "g", "l", "_", "2", "0", "2", "3", ".", "p", "d", "f">>,
      <<"s", "s", "c", " ", "1", "9", ".", "p", "d", "f">>,
      <<"a", "-", "8", "5", ".", "p", "d", "f">>,
      <<"Y", "e", "a", "r", "_", "2", "0", "2", "1", "x">>,
      <<"y", "e", "a", "r", "1", "2", "3", ".", "p", "d", "f">>,
      <<"2", "0", "2", "2", "_", "P", "a", "p", "e", "r">>,
      <<"1", "9", "9", "9", "p", "a", "p", "e", "r", "-", "3", "0">>,
      <<"n", "o", "t", "e", "s", ".", "p", "d", "f">>,
      <<"3", "1", "-", "2", "0", "3", "0", ".", "p", "d", "f">> }

YearPool ==
    { <<"2", "3">>, <<"8", "5">>, <<"3", "0">>, <<"3", "1">>, <<"0", "7">>,
      <<"2", "0", "2", "3">>, <<"1", "9", "8", "5">>, <<" ", "2", "1", " ">>,
      <<" ">>, <<"1", "2", "3">> }

RECURSIVE SeqsUpTo(_, _)
SeqsUpTo(S, n) ==
    IF n = 0 THEN {<<>>}
    ELSE SeqsUpTo(S, n - 1) \cup {Append(s, x) : s \in {t \in SeqsUpTo(S, n - 1) : Len(t) = n - 1}, x \in S}

FltInit ==
    /\ fltPc \in {"batch", "doc"}
    /\ fileName \in FileNames
    /\ allowedYearsIn \in SeqsUpTo(YearPool, MaxYears)
    /\ strictYearFiltering \in BOOLEAN
    /\ batchYears = allowedYearsIn
    /\ allowedYears = <<>>
    /\ filterCheck = [shouldProcess |-> TRUE, reason |-> "none", detectedYear |-> NoDetail]
    /\ SegIdle /\ DispIdle /\ ChunkIdle /\ DocIdle /\ PgIdle /\ DdIdle /\ BatIdle /\ CrawlIdle

\* processPdfsDirectly: examContext.allowedYears = normalizeYears(examContext.allowedYears)
BatchNormalize ==
    /\ fltPc = "batch"
    /\ batchYears' = IF Len(allowedYearsIn) > 0 THEN NormalizeYears(allowedYearsIn)
                     ELSE allowedYearsIn
    /\ fltPc' = "doc"
    /\ UNCHANGED <<fileName, allowedYearsIn, strictYearFiltering, allowedYears, filterCheck>>
    /\ UNCHANGED <<segVars, dispVars, chunkVars, docVars, pgVars, ddVars, batVars, crawlVars>>

\* processPdfWithClaude: examContext = { ...examContextInput, allowedYears: normalizeYears(...) }
DocNormalize ==
    /\ fltPc = "doc"
    /\ allowedYears' = NormalizeYears(batchYears)
    /\ fltPc' = "filter"
    /\ UNCHANGED <<fileName, allowedYearsIn, strictYearFiltering, batchYears, filterCheck>>
    /\ UNCHANGED <<segVars, dispVars, chunkVars, docVars, pgVars, ddVars, batVars, crawlVars>>

\* processPdfWithClaude: const filterCheck = shouldProcessPdf(fileName, examContext)
FilterCheck ==
    /\ fltPc = "filter"
    /\ filterCheck' = ShouldProcessPdf(fileName, allowedYears, strictYearFiltering)
    /\ fltPc' = "checked"
    /\ UNCHANGED <<fileName, allowedYearsIn, strictYearFiltering, batchYears, allowedYears>>
    /\ UNCHANGED <<segVars, dispVars, chunkVars, docVars, pgVars, ddVars, batVars, crawlVars>>

FltNext == BatchNormalize \/ DocNormalize \/ FilterCheck

SpecFilter == FltInit /\ [][FltNext]_vars


\* C8: the decision of shouldProcessPdf follows the five-row table (no allowed
\* years: process; year detected and allowed: process; year detected and not
\* allowed: skip, year mismatch; no year detected: process unless strict, skip
\* when strict), and the fall-through result 'Unknown filtering condition' is
\* never returned.
PreFilterDecisionTable ==
    fltPc = "checked" =>
        LET year == ExtractYearFromFilename(fileName)
            none == allowedYears = <<>>
            found == year # NoMatch
            allowed == year \in Range(allowedYears)
        IN  /\ none => filterCheck.shouldProcess
            /\ (~none /\ found /\ allowed) =>
                  filterCheck.shouldProcess /\ filterCheck.detectedYear = year
            /\ (~none /\ found /\ ~allowed) =>
                  /\ ~filterCheck.shouldProcess
                  /\ filterCheck.reason = "Year not in allowed years"
                  /\ filterCheck.detectedYear = year
            /\ (~none /\ ~found /\ ~strictYearFiltering) =>
                  /\ filterCheck.shouldProcess
                  /\ filterCheck.reason = "No year detected, strict filtering disabled"
            /\ (~none /\ ~found /\ strictYearFiltering) =>
                  /\ ~filterCheck.shouldProcess
                  /\ filterCheck.reason = "No year detected in filename, strict filtering enabled"
            /\ filterCheck.reason # "Unknown filtering condition"

\* A file name without a year, checked under strict filtering against a
\* non-empty set of allowed years, is skipped.
PreFilterDecisionTableWitness ==
    /\ fltPc = "checked"
    /\ allowedYears # <<>>
    /\ strictYearFiltering
    /\ ExtractYearFromFilename(fileName) = NoMatch
    /\ ~filterCheck.shouldProcess

FourDigits(y) == Len(y) = 4 /\ AllDigits(y)
TwoDigits(y) == Len(y) = 2 /\ AllDigits(y)

\* C9: normalizeYears returns a four-digit year unchanged and maps a two-digit
\* year NN to the year 2000 + NN when NN <= 30 and to 1900 + NN otherwise;
\* normalising a normalised list returns the same list; and the pre-filter
\* compares the detected year with the normalised years.
YearNormalization ==
    /\ (fltPc \in {"filter", "checked"}
        /\ \A k \in DOMAIN allowedYearsIn : Trim(allowedYearsIn[k]) # <<>>) =>
          /\ Len(allowedYears) = Len(allowedYearsIn)
          /\ \A k \in DOMAIN allowedYearsIn :
                LET y == allowedYearsIn[k] IN
                /\ FourDigits(y) => allowedYears[k] = y
                /\ TwoDigits(y) =>
                      /\ FourDigits(allowedYears[k])
                      /\ ToNumber(allowedYears[k]) =
                            IF ToNumber(y) <= 30 THEN 2000 + ToNumber(y) ELSE 1900 + ToNumber(y)
    /\ fltPc \in {"filter", "checked"} =>
          /\ NormalizeYears(allowedYears) = allowedYears
          /\ batchYears # allowedYearsIn => allowedYears = batchYears
    /\ (fltPc = "checked" /\ ExtractYearFromFilename(fileName) # NoMatch
        /\ \E k \in DOMAIN allowedYearsIn :
              TwoDigits(allowedYearsIn[k])
              /\ ToNumber(ExtractYearFromFilename(fileName)) =
                    (IF ToNumber(allowedYearsIn[k]) <= 30 THEN 2000 ELSE 1900)
                        + ToNumber(allowedYearsIn[k])) =>
          filterCheck.shouldProcess

\* The years "23" and "85" were normalised twice (by the batch and by the
\* document) to "2023" and "1985", and a file of 1985 passed the filter.
YearNormalizationWitness ==
    /\ fltPc = "checked"
    /\ allowedYearsIn = << <<"2", "3">>, <<"8", "5">> >>
    /\ batchYears = << <<"2", "0", "2", "3">>, <<"1", "9", "8", "5">> >>
    /\ allowedYears = batchYears
    /\ filterCheck.shouldProcess
    /\ filterCheck.detectedYear = <<"1", "9", "8", "5">>

(***************************************************************************)
(* processChunk: conversion of one raw item (page number, id)              *)
(*                                                                         *)
(* A page value of the parsed JSON is a number [t |-> "num", n |-> ...],   *)
(* a string [t |-> "str", s |-> ...] or absent.                            *)
(***************************************************************************)
NumPage(n) == [t |-> "num", n |-> n, s |-> <<>>]
StrPage(s) == [t |-> "str", n |-> 0, s |-> s]
AbsentPage == [t |-> "absent", n |-> 0, s |-> <<>>]

\* q.pageNumber ?? q.page ?? q.page_no ?? chunk.fromPage
PageNoCandidate(raw, chunk) == IF raw.t = "absent" THEN NumPage(chunk.fromPage) ELSE raw

\* the page persisted as the item gives it
NormalizePageKeepsRaw(chunk, cand) == cand

\* every numeric page taken as relative to the unit
NormalizePageAlwaysRelative(chunk, cand) ==
    IF cand.t = "num" THEN NumPage(chunk.fromPage + (cand.n - 1)) ELSE cand

NormalizePageOffByOne(chunk, cand) ==
    IF cand.t = "num" /\ cand.n >= 1 /\ cand.n <= chunk.toPage - chunk.fromPage + 1
    THEN NumPage(chunk.fromPage + cand.n)
    ELSE cand

\* let normalizedPage = pageNoCandidate; if (typeof pageNoCandidate === "number") ...
NormalizePage(chunk, cand) ==
    IF cand.t = "num"
    THEN IF cand.n >= 1 /\ cand.n <= chunk.toPage - chunk.fromPage + 1
         THEN NumPage(chunk.fromPage + (cand.n - 1))
         ELSE cand
    ELSE cand

\* The units splitPdfIntoChunks can produce: unit k of a split into chunks of
\* S pages starts at k * S + 1 and spans at most S pages.
PossibleChunks ==
    { [fromPage |-> f, toPage |-> f + len - 1] :
        f \in 1..MaxFromPage, len \in 1..MaxUnitLen }
PossibleChunk(c) ==
    \E S \in 1..MaxUnitLen :
        /\ (c.fromPage - 1) % S = 0
        /\ c.toPage - c.fromPage + 1 <= S

RawPages ==
    {NumPage(n) : n \in (0 - 1)..MaxRawPage} \cup {StrPage(<<"3">>), AbsentPage}

PgInit ==
    /\ pgPc = "input"
    /\ pgChunk \in {c \in PossibleChunks : PossibleChunk(c)}
    /\ pgRaw \in RawPages
    /\ pgOut = AbsentPage
    /\ SegIdle /\ DispIdle /\ ChunkIdle /\ DocIdle /\ FltIdle /\ DdIdle /\ BatIdle /\ CrawlIdle

\* questionsArray.map: the page of one item
ConvertPage ==
    /\ pgPc = "input"
    /\ pgOut' = NormalizePage(pgChunk, PageNoCandidate(pgRaw, pgChunk))
    /\ pgPc' = "done"
    /\ UNCHANGED <<pgChunk, pgRaw>>
    /\ UNCHANGED <<segVars, dispVars, chunkVars, docVars, fltVars, ddVars, batVars, crawlVars>>

PgNext == ConvertPage

SpecPage == PgInit /\ [][PgNext]_vars

\* C7: for a unit spanning absolute pages [from,to] and a numeric raw page p
\* the persisted page is from + p - 1 when 1 <= p <= to - from + 1 and p itself
\* otherwise; in the unit 9-16 raw page 3 becomes 11 and raw page 20 stays 20.
PageRemapping ==
    (pgPc = "done" /\ pgRaw.t = "num") =>
        LET p == pgRaw.n
            from == pgChunk.fromPage
            to == pgChunk.toPage
        IN  /\ pgOut.t = "num"
            /\ (1 <= p /\ p <= to - from + 1) => pgOut.n = from + p - 1
            /\ ~(1 <= p /\ p <= to - from + 1) => pgOut.n = p
            /\ (from = 9 /\ to = 16 /\ p = 3) => pgOut.n = 11
            /\ (from = 9 /\ to = 16 /\ p = 20) => pgOut.n = 20

\* The unit 9-16 with raw page 3, persisted as page 11.
PageRemappingWitness ==
    /\ pgPc = "done"
    /\ pgChunk = [fromPage |-> 9, toPage |-> 16]
    /\ pgRaw = NumPage(3)
    /\ pgOut = NumPage(11)

(***************************************************************************)
(* Reconciler: de-duplication by page and text prefix                      *)
(***************************************************************************)
PrefixLen == 120

\* `${n}` of a number
RECURSIVE NatToString(_)
NatToString(n) ==
    IF n < 10 THEN <<Digits[n + 1]>> ELSE NatToString(n \div 10) \o <<Digits[(n % 10) + 1]>>
NumberToString(n) == IF n < 0 THEN <<"-">> \o NatToString(0 - n) ELSE NatToString(n)
\* `${q.pageNo}`
PageToString(page) == IF page.t = "num" THEN NumberToString(page.n) ELSE page.s

\* s.slice(0, n)
Slice0(s, n) == SubSeq(s, 1, Min(n, Len(s)))

DedupKeyShortPrefix(q) ==
    PageToString(q.pageNo) \o <<":", ":">> \o Slice0(Trim(q.text), PrefixLen - 1)

\* const key = `${q.pageNo}::${(q.text || "").trim().slice(0, 120)}`
DedupKey(q) ==
    PageToString(q.pageNo) \o <<":", ":">> \o Slice0(Trim(q.text), PrefixLen)

\* deduped.unshift(q) in the place of deduped.push(q)
RECURSIVE DedupNewestFirst(_, _, _)
DedupNewestFirst(qs, seen, acc) ==
    IF qs = <<>> THEN acc
    ELSE LET key == DedupKey(Head(qs))
         IN  IF key \in seen
             THEN DedupNewestFirst(Tail(qs), seen, acc)
             ELSE DedupNewestFirst(Tail(qs), seen \cup {key}, <<Head(qs)>> \o acc)

\* for (const q of accumulatedQuestions) if (!seen.has(key)) { seen.add(key); deduped.push(q) }
RECURSIVE DedupFrom(_, _, _)
DedupFrom(qs, seen, acc) ==
    IF qs = <<>> THEN acc
    ELSE LET key == DedupKey(Head(qs))
         IN  IF key \in seen
             THEN DedupFrom(Tail(qs), seen, acc)
             ELSE DedupFrom(Tail(qs), seen \cup {key}, Append(acc, Head(qs)))

Dedup(qs) == DedupFrom(qs, {}, <<>>)

\* Question texts: two long texts that agree on their first 120 characters,
\* one that differs from them at character 120 only, one that differs from
\* the first by surrounding white space only, and short ones.
Repeat(c, n) == [k \in 1..n |-> c]
LongTextX == Repeat("a", PrefixLen) \o <<"x">>
LongTextY == Repeat("a", PrefixLen) \o <<"y">>
LongTextB == Repeat("a", PrefixLen - 1) \o <<"b", "x">>
PaddedTextX == <<" ", " ">> \o LongTextX \o <<" ">>
ShortText == <<"Q", "1", "?">>
TextPool == {LongTextX, LongTextY, LongTextB, PaddedTextX, ShortText}

\* Converted questions without their ids (the ids are given by position).
QuestionPool ==
    {[pageNo |-> NumPage(n), text |-> t] : n \in 1..2, t \in TextPool}
        \cup {[pageNo |-> StrPage(<<"1">>), text |-> ShortText]}

GeneratedId(n) == [generated |-> TRUE, n |-> n]
GivenId(n) == [generated |-> FALSE, n |-> n]

WithIds(qs) ==
    [k \in DOMAIN qs |-> [id |-> GeneratedId(k), pageNo |-> qs[k].pageNo, text |-> qs[k].text]]

DdInit ==
    /\ ddPc = "input"
    /\ \E qs \in SeqsUpTo(QuestionPool, MaxAccumulated) : accumulatedQuestions = WithIds(qs)
    /\ deduped = <<>>
    /\ SegIdle /\ DispIdle /\ ChunkIdle /\ DocIdle /\ FltIdle /\ PgIdle /\ BatIdle /\ CrawlIdle

\* the de-duplication loop of processPdfWithClaude
Deduplicate ==
    /\ ddPc = "input"
    /\ deduped' = Dedup(accumulatedQuestions)
    /\ ddPc' = "done"
    /\ UNCHANGED accumulatedQuestions
    /\ UNCHANGED <<segVars, dispVars, chunkVars, docVars, fltVars, pgVars, batVars, crawlVars>>

DdNext == Deduplicate

SpecDedup == DdInit /\ [][DdNext]_vars

\* The key of the claim: the page and the first 120 characters of the trimmed text.
TextPrefix(q) ==
    LET t == Trim(q.text) IN [k \in 1..Min(120, Len(t)) |-> t[k]]
PageAndPrefix(q) == <<PageToString(q.pageNo), TextPrefix(q)>>

\* C6: no two questions of the result share (page, first 120 characters of the
\* trimmed text); of the concatenated items with an equal key exactly the
\* first is kept; two items on the same page whose prefixes differ are both
\* kept.
Deduplication ==
    ddPc = "done" =>
        /\ \A i, j \in DOMAIN deduped :
              i # j => PageAndPrefix(deduped[i]) # PageAndPrefix(deduped[j])
        /\ \A k \in DOMAIN accumulatedQuestions :
              (\E d \in DOMAIN deduped : deduped[d] = accumulatedQuestions[k])
                 <=> (\A j \in 1..(k - 1) :
                         PageAndPrefix(accumulatedQuestions[j])
                            # PageAndPrefix(accumulatedQuestions[k]))
        /\ (/\ Len(accumulatedQuestions) = 2
            /\ accumulatedQuestions[1].pageNo = accumulatedQuestions[2].pageNo
            /\ TextPrefix(accumulatedQuestions[1]) # TextPrefix(accumulatedQuestions[2]))
              => deduped = accumulatedQuestions

\* Three items of one page: the second differs from the first after character
\* 120 only and is dropped, the third differs at character 120 and is kept.
DeduplicationWitness ==
    /\ ddPc = "done"
    /\ Len(accumulatedQuestions) = 3
    /\ accumulatedQuestions[1].text = PaddedTextX
    /\ accumulatedQuestions[2].text = LongTextY
    /\ accumulatedQuestions[3].text = LongTextB
    /\ \A k \in 1..3 : accumulatedQuestions[k].pageNo = NumPage(1)
    /\ deduped = <<accumulatedQuestions[1], accumulatedQuestions[3]>>

(***************************************************************************)
(* Unit Processor: processChunk                                            *)
(*                                                                         *)
(* A response of the external service is what processChunk sees of it:     *)
(*   t = "error"    client.messages.create rejected (transport failure,    *)
(*                  timeout) with message msg,                             *)
(*   t = "nojson"   text in which extractJsonFromClaudeText finds no JSON  *)
(*                  value,                                                 *)
(*   t = "array"    the parsed value is an array, its items in questions,  *)
(*   t = "object"   the parsed value is an object: skip says whether its   *)
(*                  skip field is true, scope and reason are its fields of *)
(*                  those names, list says whether it has an array-valued  *)
(*                  field and questions is the first such field in the     *)
(*                  order questions, items, any other key.                 *)
(* Absent strings are "".                                                  *)
(***************************************************************************)
ErrorResponse(msg) ==
    [t |-> "error", msg |-> msg, skip |-> FALSE, scope |-> "", reason |-> "",
     list |-> FALSE, questions |-> <<>>]
NoJsonResponse ==
    [t |-> "nojson", msg |-> "", skip |-> FALSE, scope |-> "", reason |-> "",
     list |-> FALSE, questions |-> <<>>]
\* { "skip": true, "scope": ..., "reason": ... }
SkipResponse(scope, reason) ==
    [t |-> "object", msg |-> "", skip |-> TRUE, scope |-> scope, reason |-> reason,
     list |-> FALSE, questions |-> <<>>]
\* { "skip": true, "scope": ..., "reason": ..., "questions": [...] }
SkipWithItems(scope, reason, qs) ==
    [t |-> "object", msg |-> "", skip |-> TRUE, scope |-> scope, reason |-> reason,
     list |-> TRUE, questions |-> qs]
\* [ ... ]
ArrayResponse(qs) ==
    [t |-> "array", msg |-> "", skip |-> FALSE, scope |-> "", reason |-> "",
     list |-> TRUE, questions |-> qs]
\* [ ..., null ]: an array whose last element, after the items qs, is null;
\* the map callback throws a TypeError when it reads q.pageNumber of it
BrokenArrayResponse(qs) ==
    [t |-> "brokenarray", msg |-> "", skip |-> FALSE, scope |-> "", reason |-> "",
     list |-> TRUE, questions |-> qs]
\* { "questions": [...] }, { "items": [...] } or another array-valued field
WrapperResponse(qs) ==
    [t |-> "object", msg |-> "", skip |-> FALSE, scope |-> "", reason |-> "",
     list |-> TRUE, questions |-> qs]
\* an object with neither skip: true nor an array-valued field, such as
\* { "message": "No questions on these pages" }
OtherResponse ==
    [t |-> "object", msg |-> "", skip |-> FALSE, scope |-> "", reason |-> "",
     list |-> FALSE, questions |-> <<>>]

\* skipReason.includes("year"), the case not folded
MentionsYearCaseSensitive(reason) ==
    \E p \in 1..(Len(reason) - 3) : SubSeq(reason, p, p + 3) = "year"

\* skipReason.toLowerCase().includes("year")
MentionsYear(reason) ==
    \E p \in 1..(Len(reason) - 3) :
        \A k \in 1..4 : ToLower(SubSeq(reason, p + k - 1, p + k - 1)) = SubSeq("year", k, k)

\* The failure an attempt ends with: the message caught by the catch block,
\* "" when the attempt does not fail.
FailureMessage(resp) ==
    IF resp.t = "error" THEN resp.msg
    ELSE IF resp.t = "nojson" THEN "No JSON found in chunk response"
    ELSE IF resp.t = "brokenarray" THEN "Cannot read properties of null (reading 'pageNumber')"
    ELSE ""
FailsOnTransportOnly(resp) == resp.t = "error"

\* an array with a null element converted as far as it goes
FailsUnlessItems(resp) == resp.t \in {"error", "nojson"}

\* What makes an attempt end in the catch block: client.messages.create
\* rejects, extractJsonFromClaudeText returns null and
\* "No JSON found in chunk response" is thrown, or the conversion of an item
\* throws.
Fails(resp) == resp.t \in {"error", "nojson", "brokenarray"}

SkipUnlessItems(resp) == resp.t = "object" /\ resp.skip /\ ~resp.list

\* parsed && typeof parsed === "object" && parsed.skip === true, tested before
\* the questions are looked for
IsSkipObject(resp) == resp.t = "object" /\ resp.skip

\* let questionsArray = []; it becomes parsed, parsed.questions, parsed.items
\* or the first array-valued field, and stays [] when there is none.
QuestionsArray(resp) == IF resp.list THEN resp.questions ELSE <<>>

\* What processChunk returns.
ChunkError(msg) ==
    [kind |-> "value", success |-> FALSE, skip |-> FALSE, skipReason |-> "",
     skipScope |-> "", questions |-> <<>>, error |-> msg]
ChunkSkip(resp) ==
    LET skipReason == IF resp.reason # "" THEN resp.reason ELSE "LLM signaled skip (no reason)"
        skipScope == IF resp.scope # "" THEN resp.scope
                     ELSE IF MentionsYear(skipReason) THEN "document" ELSE "chunk"
    IN  [kind |-> "value", success |-> TRUE, skip |-> TRUE, skipReason |-> skipReason,
         skipScope |-> skipScope, questions |-> <<>>, error |-> ""]
ChunkQuestions(qs) ==
    [kind |-> "value", success |-> TRUE, skip |-> FALSE, skipReason |-> "",
     skipScope |-> "", questions |-> qs, error |-> ""]

\* the ids numbered by a counter of the unit instead of the document
ConvertWithUnitCounter(chunk, raws, counter) ==
    [k \in DOMAIN raws |->
        [id |-> IF raws[k].id.n # 0 THEN raws[k].id ELSE GeneratedId(k),
         pageNo |-> NormalizePage(chunk, PageNoCandidate(raws[k].page, chunk)),
         text |-> raws[k].text]]

\* questionsArray.map: item k of the response is converted with
\* globalQCounter = counter + k.
ConvertQuestions(chunk, raws, counter) ==
    [k \in DOMAIN raws |->
        [id |-> IF raws[k].id.n # 0 THEN raws[k].id ELSE GeneratedId(counter + k),
         pageNo |-> NormalizePage(chunk, PageNoCandidate(raws[k].page, chunk)),
         text |-> raws[k].text]]

BaseDelay == 1000        \* the factor of const backoff = 1000 * attempt

BackoffConstant(att) == BaseDelay

\* const backoff = 1000 * attempt, slept before the next iteration of the loop
Backoff(att) == BaseDelay * att

\* The number of times the map callback executes globalQCounter++ for an
\* answer: once for every item, the null one that makes it throw included.
CounterSteps(resp) ==
    IF resp.t = "brokenarray" THEN Len(resp.questions) + 1
    ELSE IF ~Fails(resp) /\ ~IsSkipObject(resp) THEN Len(QuestionsArray(resp))
    ELSE 0

\* while (attempt <= maxRetries) / if (attempt <= maxRetries) in the catch block
MayRetryOnceMore(att, retries) == att <= retries + 1

MayRetry(att, retries) == att <= retries

\* the last failed attempt leaving the loop without a return statement
OutcomeLostWhenExhausted(chunk, resp, counter) ==
    IF Fails(resp) THEN NoResult
    ELSE IF IsSkipObject(resp) THEN ChunkSkip(resp)
    ELSE ChunkQuestions(ConvertQuestions(chunk, QuestionsArray(resp), counter))

\* What processChunk returns after an answer that ends its loop, for
\* globalQCounter = counter.
OutcomeOf(chunk, resp, counter) ==
    IF Fails(resp) THEN ChunkError(FailureMessage(resp))
    ELSE IF IsSkipObject(resp) THEN ChunkSkip(resp)
    ELSE ChunkQuestions(ConvertQuestions(chunk, QuestionsArray(resp), counter))

\* The answer to the pending call of the chunk at index runner[r].i arrives.
\* A failed attempt that may be retried waits Backoff(attempt) ms and sends the
\* next call; anything else makes processChunk return, and its runner continue.
ChunkResponse(r, resp) ==
    LET i == runner[r].i
        chunk == At(items, i)
        att == At(attempt, i)
        retry == Fails(resp) /\ MayRetry(att, maxRetries)
        value == OutcomeOf(chunk, resp, globalQCounter)
        attempt1 == IF retry THEN [attempt EXCEPT ![i + 1] = att + 1] ELSE attempt
        calls1 == IF retry THEN [calls EXCEPT ![i + 1] = @ + 1] ELSE calls
    IN
    /\ worker = "processChunk"
    /\ docPc = "chunks"
    /\ runner[r].pc = "await"
    /\ resp \in service[i + 1]
    /\ received' = [received EXCEPT ![i + 1] = Append(@, resp)]
    /\ delays' = IF retry THEN [delays EXCEPT ![i + 1] = Append(@, Backoff(att))]
                 ELSE delays
    /\ lastErr' = IF Fails(resp) THEN [lastErr EXCEPT ![i + 1] = FailureMessage(resp)]
                  ELSE lastErr
    /\ globalQCounter' = globalQCounter + CounterSteps(resp)
    /\ IF retry
       THEN /\ attempt' = attempt1 /\ calls' = calls1
            /\ UNCHANGED <<dispVars, returned>>
       ELSE /\ returned' = [returned EXCEPT ![i + 1] = value]
            /\ RunnerContinue(r, value)
            /\ attempt' = [k \in DOMAIN attempt |->
                              IF k - 1 = NextClaimed(value) THEN 1 ELSE attempt1[k]]
            /\ calls' = [k \in DOMAIN calls |->
                              IF k - 1 = NextClaimed(value) THEN calls1[k] + 1 ELSE calls1[k]]
    /\ UNCHANGED <<maxRetries, service, docPc, docPages, chunks, result, console>>
    /\ UNCHANGED <<segVars, fltVars, pgVars, ddVars, batVars, crawlVars>>

(***************************************************************************)
(* processPdfWithClaude: pre-filter, split, dispatch, reconcile            *)
(***************************************************************************)
SkippedByFilter(reason) == [from |-> "filter", text |-> reason]
SkippedByLLM(reason) == [from |-> "LLM", text |-> reason]
SkippedStrict ==
    [from |-> "strict", text |-> "LLM returned no questions and strictYearFiltering is enabled"]

ChunkFailed(i, msg) == [kind |-> "chunk", chunk |-> i + 1, msg |-> msg]
SkipNote(reason) == [kind |-> "skipped", chunk |-> 0, msg |-> reason.text]
DocFailed(msg) == [kind |-> "failed", chunk |-> 0, msg |-> msg]

EmptyResult ==
    [success |-> FALSE, questions |-> <<>>, errors |-> <<>>, skippedReason |-> NoReason]

\* `!r`: a hole of the array or undefined
Missing(r) == r.kind = "empty"
\* r.skip, r.success, r.error of an entry that may be the { error } placeholder
SkipOf(r) == r.kind = "value" /\ r.skip
SuccessOf(r) == r.kind = "value" /\ r.success
ErrorOf(r) == IF r.error # "" THEN r.error ELSE "Unknown chunk failure"
\* r.skipScope || (r.skipReason && ...includes("year") ? "document" : "chunk")
ScopeOf(r) ==
    IF r.skipScope # "" THEN r.skipScope
    ELSE IF r.skipReason # "" /\ MentionsYear(r.skipReason) THEN "document" ELSE "chunk"

NoBreakOnDocumentSkip(r) == FALSE

\* a skip of any scope taken as a document skip
BreaksOnAnySkip(r) == SkipOf(r)

\* scope === "document": sawSkip = true and break
BreaksLoop(r) == SkipOf(r) /\ ScopeOf(r) = "document"

\* console.log of a skip: "LLM requested document-level skip on chunk N: ..." |
\* "Skipping chunk N (chunk-skip): ..."
SkipLine(kind, i, reason) == [kind |-> kind, chunk |-> i + 1, msg |-> reason]

\* the loop left at the first failed unit
RECURSIVE ReconcileStopsAtError(_, _, _)
ReconcileStopsAtError(chunkResults, i, acc) ==
    IF i >= Len(chunkResults) THEN acc
    ELSE LET r == At(chunkResults, i) IN
         IF BreaksLoop(r) THEN [acc EXCEPT !.sawSkip = TRUE, !.skipReason = r.skipReason]
         ELSE IF SkipOf(r) THEN ReconcileStopsAtError(chunkResults, i + 1, acc)
         ELSE IF SuccessOf(r)
         THEN ReconcileStopsAtError(chunkResults, i + 1,
                  [acc EXCEPT !.questions = @ \o r.questions])
         ELSE [acc EXCEPT !.errors = Append(@, ChunkFailed(i, ErrorOf(r)))]

\* for (let i = 0; i < chunkResults.length; i++) { ... } from index i on;
\* acc holds accumulatedQuestions, result.errors, sawSkip, skipReasonFromLLM
\* and the skip lines written to the console.
RECURSIVE ReconcileFrom(_, _, _)
ReconcileFrom(chunkResults, i, acc) ==
    IF i >= Len(chunkResults) THEN acc
    ELSE LET r == At(chunkResults, i) IN
         IF Missing(r)
         THEN ReconcileFrom(chunkResults, i + 1,
                  [acc EXCEPT !.errors = Append(@, ChunkFailed(i, "produced no result"))])
         ELSE IF BreaksLoop(r)
         THEN LET reason == IF r.skipReason # "" THEN r.skipReason
                            ELSE "LLM signaled document-level skip"
              IN  [acc EXCEPT !.sawSkip = TRUE, !.skipReason = reason,
                              !.logged = Append(@, SkipLine("document-skip", i, reason))]
         ELSE IF SkipOf(r)
         THEN ReconcileFrom(chunkResults, i + 1,
                  [acc EXCEPT !.logged = Append(@, SkipLine("chunk-skip", i,
                      IF r.skipReason # "" THEN r.skipReason ELSE "No reason provided"))])
         ELSE IF SuccessOf(r)
         THEN ReconcileFrom(chunkResults, i + 1,
                  [acc EXCEPT !.questions = @ \o r.questions])
         ELSE ReconcileFrom(chunkResults, i + 1,
                  [acc EXCEPT !.errors = Append(@, ChunkFailed(i, ErrorOf(r)))])

\* The loop over chunkResults, entered with the result built so far.
ReconcileLoop(chunkResults, res) ==
    ReconcileFrom(chunkResults, 0,
        [questions |-> <<>>, errors |-> res.errors, sawSkip |-> FALSE,
         skipReason |-> "", logged |-> <<>>])

StrictIgnored(strict, dd) == FALSE

\* an empty result taken as a skip whatever strictYearFiltering is
StrictAlways(strict, dd) == Len(dd) = 0

\* examContext.strictYearFiltering && result.questions.length === 0
StrictEmpty(strict, dd) == strict /\ Len(dd) = 0

\* a document skip that sets the reason and falls through to the
\* de-duplication instead of returning
SkipWithoutReturn(chunkResults, res, strict) ==
    LET acc == ReconcileLoop(chunkResults, res)
        dd == Dedup(acc.questions)
    IN  [success |-> Len(dd) > 0, questions |-> dd, errors |-> acc.errors,
         skippedReason |-> IF acc.sawSkip THEN SkippedByLLM(acc.skipReason)
                           ELSE res.skippedReason]

\* The code after `await runWithConcurrency(...)` up to the return.
Reconciled(chunkResults, res, strict) ==
    LET acc == ReconcileLoop(chunkResults, res)
        dd == Dedup(acc.questions)
    IN  IF acc.sawSkip
        THEN [success |-> FALSE, questions |-> res.questions,
              errors |-> Append(acc.errors, SkipNote(SkippedByLLM(acc.skipReason))),
              skippedReason |-> SkippedByLLM(acc.skipReason)]
        ELSE IF StrictEmpty(strict, dd)
        THEN [success |-> FALSE, questions |-> dd,
              errors |-> Append(acc.errors, SkipNote(SkippedStrict)),
              skippedReason |-> SkippedStrict]
        ELSE [success |-> Len(dd) > 0, questions |-> dd, errors |-> acc.errors,
              skippedReason |-> res.skippedReason]

\* Raw items of the responses. An id with n = 0 is an absent id.
AbsentId == GivenId(0)
PaddedShortText == <<" ">> \o ShortText \o <<" ">>
OtherText == <<"Q", "2", "?">>
RawItem(id, page, text) == [id |-> id, page |-> page, text |-> text]
OneItem == << RawItem(AbsentId, NumPage(1), ShortText) >>
ItemLists ==
    { OneItem,
      << RawItem(GivenId(7), AbsentPage, PaddedShortText),
         RawItem(AbsentId, NumPage(1), OtherText) >>,
      << >> }

ErrorResponses == {ErrorResponse("Request timed out"), NoJsonResponse}
SkipResponses ==
    { SkipResponse("document", "Not the configured exam"),
      SkipResponse("chunk", "Answer key section"),
      SkipResponse("", "Wrong YEAR: 2019"),
      SkipResponse("", "Syllabus page"),
      SkipResponse("", ""),
      SkipResponse("page", "Blank page"),
      SkipWithItems("chunk", "Answer key section", OneItem),
      SkipWithItems("", "Year 2019 paper", OneItem) }
ArrayResponses ==
    {ArrayResponse(qs) : qs \in ItemLists} \cup {WrapperResponse(OneItem), OtherResponse}
\* Every response of the model, and the fewer ones of a whole document.
AllResponses ==
    ErrorResponses \cup SkipResponses \cup ArrayResponses \cup {BrokenArrayResponse(OneItem)}
DocResponses ==
    { NoJsonResponse, SkipResponse("document", "Not the configured exam"),
      SkipResponse("chunk", "Answer key section") }
        \cup {ArrayResponse(qs) : qs \in ItemLists}

\* File name, configured years and strictness of the documents of the model.
DocContexts ==
    { [name |-> <<"c", "g", "l", "-", "2", "0", "2", "3", ".", "p", "d", "f">>,
       years |-> <<>>, strict |-> FALSE],
      [name |-> <<"c", "g", "l", "-", "2", "0", "2", "3", ".", "p", "d", "f">>,
       years |-> << <<"2", "3">> >>, strict |-> TRUE],
      [name |-> <<"n", "o", "t", "e", "s", ".", "p", "d", "f">>,
       years |-> << <<"2", "3">> >>, strict |-> TRUE] }

\* The same answers are possible for every unit of the document.
ForEachUnit(pages, perChunk, svc) ==
    [k \in 1..Len(SplitPdfIntoChunks(pages, perChunk)) |-> svc]

\* The state at the call of processPdfWithClaude(filePath, config, examContextInput, options).
DocEntry(ctx, pages, perChunk, conc, retries, svc) ==
    /\ docPc = "filter"
    /\ fileName = ctx.name /\ allowedYearsIn = ctx.years /\ batchYears = ctx.years
    /\ strictYearFiltering = ctx.strict
    /\ allowedYears = <<>>
    /\ filterCheck = [shouldProcess |-> TRUE, reason |-> "none", detectedYear |-> NoDetail]
    /\ fltPc = "idle"
    /\ docPages = pages /\ pagesPerChunk = perChunk
    /\ totalPages = 0 /\ start = 0 /\ out = <<>> /\ segPc = "idle"
    /\ chunks = <<>> /\ returned = <<>> /\ console = <<>>
    /\ result = EmptyResult
    /\ impl = "rethrow" /\ worker = "processChunk" /\ items = <<>>
    /\ concurrency = conc
    /\ idx = 0 /\ results = <<>> /\ runner = <<>> /\ invoked = <<>> /\ settled = <<>>
    /\ dpc = "idle"
    /\ maxRetries = retries
    /\ attempt = <<>> /\ lastErr = <<>> /\ calls = <<>> /\ received = <<>>
    /\ delays = <<>>
    /\ globalQCounter = 0
    /\ service = svc
    /\ PgIdle /\ DdIdle /\ BatIdle /\ CrawlIdle

DocInit ==
    \E ctx \in DocContexts, pages \in 0..MaxDocPages, perChunk \in 1..MaxDocPages,
       conc \in 1..MaxDocPages, retries \in 0..MaxDocRetries :
        DocEntry(ctx, pages, perChunk, conc, retries,
                 ForEachUnit(pages, perChunk, DocResponses))

\* One unit, every response, more retries.
ChunkInit ==
    \E retries \in 0..MaxRetriesBound :
        DocEntry(CHOOSE ctx \in DocContexts : ctx.years = <<>>, 1, 1, 1, retries,
                 ForEachUnit(1, 1, AllResponses))

\* if (!filterCheck.shouldProcess) { ...; return result }
FilterSkipResult(res, reason) ==
    [res EXCEPT !.success = FALSE,
                !.skippedReason = SkippedByFilter(reason),
                !.errors = Append(@, SkipNote(SkippedByFilter(reason)))]

\* catch (error) { result.success = false; result.errors.push(msg) }
FailedResult(res, msg) ==
    [res EXCEPT !.success = FALSE, !.errors = Append(@, DocFailed(msg))]

\* a pre-filter whose verdict is logged and not acted on
FilterOnlyLogs(check) == FALSE

\* if (!filterCheck.shouldProcess) { ...; return result; }
FilterRejects(check) == ~check.shouldProcess

\* normalizeYears, shouldProcessPdf and the early return of a filtered file
DocFilter ==
    /\ docPc = "filter"
    /\ allowedYears' = NormalizeYears(batchYears)
    /\ filterCheck' = ShouldProcessPdf(fileName, allowedYears', strictYearFiltering)
    /\ IF FilterRejects(filterCheck')
       THEN /\ result' = FilterSkipResult(result, filterCheck'.reason)
            /\ docPc' = "done"
       ELSE /\ docPc' = "split"
            /\ UNCHANGED result
    /\ UNCHANGED <<fltPc, fileName, allowedYearsIn, strictYearFiltering, batchYears>>
    /\ UNCHANGED <<docPages, chunks, returned, console>>
    /\ UNCHANGED <<segVars, dispVars, chunkVars, pgVars, ddVars, batVars, crawlVars>>

ZeroChunksAccepted(cs) == FALSE

\* if (chunks.length === 0) throw new Error("No chunks produced from PDF")
NoChunks(cs) == Len(cs) = 0

\* readFileSync, splitPdfIntoChunks and the call of runWithConcurrency; no
\* chunk is an error caught by the catch block of processPdfWithClaude.
DocSplit ==
    LET cs == SplitPdfIntoChunks(docPages, pagesPerChunk) IN
    /\ docPc = "split"
    /\ chunks' = cs
    /\ IF NoChunks(cs)
       THEN /\ result' = FailedResult(result, "No chunks produced from PDF")
            /\ docPc' = "done"
            /\ UNCHANGED <<dispVars, attempt, calls, lastErr, received, delays, returned>>
       ELSE /\ StartRun(impl, cs, "processChunk", concurrency)
            /\ attempt' = [k \in 1..Len(cs) |-> IF invoked'[k] = 1 THEN 1 ELSE 0]
            /\ calls' = attempt'
            /\ lastErr' = [k \in 1..Len(cs) |-> ""]
            /\ received' = [k \in 1..Len(cs) |-> <<>>]
            /\ delays' = [k \in 1..Len(cs) |-> <<>>]
            /\ returned' = [k \in 1..Len(cs) |-> NoResult]
            /\ docPc' = "chunks"
            /\ UNCHANGED result
    /\ UNCHANGED <<maxRetries, globalQCounter, service, docPages, console>>
    /\ UNCHANGED <<segVars, fltVars, pgVars, ddVars, batVars, crawlVars>>

\* runWithConcurrency has returned: the loop over chunkResults, the
\* de-duplication and the return of the result.
Reconcile ==
    /\ docPc = "chunks"
    /\ dpc = "returned"
    /\ result' = Reconciled(results, result, strictYearFiltering)
    /\ console' = ReconcileLoop(results, result).logged
    /\ docPc' = "done"
    /\ UNCHANGED <<docPages, chunks, returned>>
    /\ UNCHANGED <<segVars, dispVars, chunkVars, fltVars, pgVars, ddVars, batVars, crawlVars>>

DocNext ==
    \/ DocFilter
    \/ DocSplit
    \/ \E r \in DOMAIN runner, resp \in UNION Range(service) : ChunkResponse(r, resp)
    \/ Reconcile

SpecDoc == DocInit /\ [][DocNext]_vars
SpecChunk == ChunkInit /\ [][DocNext]_vars


\* The items of the units, in unit order, as processChunk returned them.
RECURSIVE ReturnedQuestions(_)
ReturnedQuestions(rets) ==
    IF rets = <<>> THEN <<>>
    ELSE (IF Head(rets).success /\ ~Head(rets).skip THEN Head(rets).questions ELSE <<>>)
            \o ReturnedQuestions(Tail(rets))

IsDocumentSkip(ret) == ret.kind = "value" /\ ret.skip /\ ret.skipScope = "document"
DocumentSkips == {i \in 0..(Len(returned) - 1) : IsDocumentSkip(At(returned, i))}
\* Questions of one list that keep the first of each (page, prefix).
RECURSIVE FirstOfEachKey(_, _)
FirstOfEachKey(qs, keys) ==
    IF qs = <<>> THEN <<>>
    ELSE IF PageAndPrefix(Head(qs)) \in keys THEN FirstOfEachKey(Tail(qs), keys)
    ELSE <<Head(qs)>> \o FirstOfEachKey(Tail(qs), keys \cup {PageAndPrefix(Head(qs))})

\* C4: the result of unit i is stored at position i whatever the order in
\* which the units complete, and the units are reconciled in index order: the
\* questions of the document are the items the units returned, taken in unit
\* order (first of each key), whatever the interleaving.
OrderIndependence ==
    /\ \A i \in 0..(Len(returned) - 1) :
          (dpc \in {"running", "returned"} /\ At(returned, i) # NoResult) =>
              (i < Len(results) /\ At(results, i) = At(returned, i))
    /\ (docPc = "done" /\ dpc = "returned" /\ DocumentSkips = {}) =>
          result.questions = FirstOfEachKey(ReturnedQuestions(returned), {})

\* Two units completed against their index order (the second unit's generated
\* id is the smaller one), and the questions are in unit order.
OrderIndependenceWitness ==
    /\ docPc = "done"
    /\ Len(returned) = 2
    /\ Len(result.questions) = 2
    /\ result.questions[1] \in Range(At(returned, 0).questions)
    /\ result.questions[2] \in Range(At(returned, 1).questions)
    /\ result.questions[1].id.generated /\ result.questions[2].id.generated
    /\ result.questions[1].id.n > result.questions[2].id.n

\* C5: if any unit's outcome is DocumentSkip, the document has no questions,
\* success = false and the skip reason of the lowest-indexed DocumentSkip
\* unit, whatever the other units returned.
DocumentSkipShortCircuit ==
    (docPc = "done" /\ dpc = "returned" /\ DocumentSkips # {}) =>
        LET first == CHOOSE i \in DocumentSkips : \A j \in DocumentSkips : i <= j IN
        /\ result.questions = <<>>
        /\ ~result.success
        /\ result.skippedReason = SkippedByLLM(At(returned, first).skipReason)

\* The second unit returned a document skip after the first returned items.
DocumentSkipShortCircuitWitness ==
    /\ docPc = "done"
    /\ Len(returned) = 2
    /\ DocumentSkips = {1}
    /\ Len(At(returned, 0).questions) > 0
    /\ result.questions = <<>>
    /\ result.skippedReason.from = "LLM"

\* C10: for maxRetriesPerChunk = R >= 0 the service is called at most R + 1
\* times for one unit; no call follows an attempt that yielded a parsed
\* response; and a unit whose R + 1 attempts all failed returns an error
\* carrying the message of the last failure.
RetryBound ==
    \A k \in DOMAIN calls :
        /\ calls[k] <= maxRetries + 1
        /\ \A a \in DOMAIN received[k] : ~Fails(received[k][a]) => calls[k] = a
        /\ returned[k] # NoResult =>
              /\ Len(received[k]) = calls[k]
              /\ (\A a \in DOMAIN received[k] : Fails(received[k][a])) =>
                    /\ calls[k] = maxRetries + 1
                    /\ ~returned[k].success /\ ~returned[k].skip
                    /\ returned[k].error = FailureMessage(received[k][calls[k]])
              /\ (~returned[k].success) =>
                    \A a \in DOMAIN received[k] : Fails(received[k][a])

\* With two retries allowed, three attempts failed, the last one differently
\* from the ones before, and the unit returned the last message.
RetryBoundWitness ==
    /\ maxRetries = 2
    /\ Len(calls) = 1 /\ calls[1] = 3
    /\ Len(received[1]) = 3
    /\ received[1][2].t = "nojson"
    /\ received[1][3].t = "error"
    /\ returned[1] # NoResult
    /\ returned[1].error = "Request timed out"


(***************************************************************************)
(* processPdfsDirectly: the batch                                          *)
(*                                                                         *)
(* The documents of a batch share nothing but examContext, which only      *)
(* processPdfsDirectly writes, before the first document starts. A call of *)
(* processPdfWithClaude is therefore one step of the batch: its result is  *)
(* computed, with the operators of the document model, from what the file  *)
(* is: its name, its page count and the answer that ends each of its units.*)
(***************************************************************************)
\* What processChunk returns for the chunks from index i on, the units taken
\* in index order.
RECURSIVE UnitOutcomes(_, _, _, _)
UnitOutcomes(cs, answers, i, counter) ==
    IF i >= Len(cs) THEN <<>>
    ELSE LET o == OutcomeOf(At(cs, i), At(answers, i), counter)
         IN  <<o>> \o UnitOutcomes(cs, answers, i + 1, counter + Len(o.questions))

\* The message of the error readFileSync or PDFDocument.load throws for a file
\* that cannot be read or is no PDF.
LoadError == "Failed to parse PDF document"

\* The DirectPdfResult processPdfWithClaude returns for a file; every throw
\* after the pre-filter is inside its try block.
DocumentResultOf(file, years, strict, perChunk) ==
    LET fc == ShouldProcessPdf(file.name, NormalizeYears(years), strict)
        cs == SplitPdfIntoChunks(file.pages, perChunk)
    IN  IF FilterRejects(fc) THEN FilterSkipResult(EmptyResult, fc.reason)
        ELSE IF file.corrupt THEN FailedResult(EmptyResult, LoadError)
        ELSE IF NoChunks(cs) THEN FailedResult(EmptyResult, "No chunks produced from PDF")
        ELSE Reconciled(UnitOutcomes(cs, file.answers, 0, 0), EmptyResult, strict)

\* the worker of the batch without its try/catch, processPdfWithClaude
\* without its own: the failure of the document rejects the worker's promise
FileThrows(doc) ==
    IF doc.skippedReason = NoReason /\ ~doc.success /\ doc.errors # <<>>
    THEN [kind |-> "thrown", of |-> doc.errors[1].msg]
    ELSE [kind |-> "value", doc |-> doc]

\* The value the worker of the batch resolves with.
FileValue(doc) == [kind |-> "value", doc |-> doc]

\* catch (err) of the worker: the result it returns in place of the one of
\* processPdfWithClaude
CaughtByWorker(msg) ==
    [success |-> FALSE, questions |-> <<>>,
     errors |-> <<[kind |-> "caught", chunk |-> 0, msg |-> msg]>>,
     skippedReason |-> NoReason]

SkippedByWorker(msg) == [from |-> "worker", text |-> msg]
WorkerFailed(msg) == [kind |-> "worker", chunk |-> 0, msg |-> msg]

\* fileResults.map((r, i) => ...): a missing entry and the { error }
\* placeholder become skipped results, anything else is the worker's result.
NormalizeFileResult(r) ==
    IF Missing(r)
    THEN [success |-> FALSE, questions |-> <<>>,
          errors |-> <<WorkerFailed("No result from worker")>>,
          skippedReason |-> SkippedByWorker("No result from worker")]
    ELSE IF r.kind = "error"
    THEN [success |-> FALSE, questions |-> <<>>,
          errors |-> <<WorkerFailed(r.error)>>,
          skippedReason |-> SkippedByWorker(r.error)]
    ELSE r.doc

\* only the successful results counted as processed
ProcessedOnlySuccessful(norm) == SelectSeq(norm, LAMBDA d : d.success)

\* normalizedResults.filter((r) => !r.metadata.skippedReason) and its complement
ProcessedResults(norm) == SelectSeq(norm, LAMBDA d : d.skippedReason = NoReason)
SkippedResults(norm) == SelectSeq(norm, LAMBDA d : d.skippedReason # NoReason)

\* processedResults.reduce((s, r) => s + (r.success ? r.questions.length : 0), 0)
RECURSIVE CountQuestions(_)
CountQuestions(docs) ==
    IF docs = <<>> THEN 0
    ELSE (IF Head(docs).success THEN Len(Head(docs).questions) ELSE 0)
            + CountQuestions(Tail(docs))

\* normalizedResults.forEach((r) => result.errors.push(...r.errors))
RECURSIVE AllErrors(_)
AllErrors(docs) ==
    IF docs = <<>> THEN <<>> ELSE Head(docs).errors \o AllErrors(Tail(docs))

\* the initial `success: true` left as it is
BatchSuccessUnset(successfulFiles) == TRUE

\* result.success = successfulFiles > 0
BatchSuccess(successfulFiles) == successfulFiles > 0

\* The statistics of processPdfsDirectly over the normalised results.
BatchOf(res, norm) ==
    LET processed == ProcessedResults(norm)
        successfulFiles == Len(SelectSeq(processed, LAMBDA d : d.success))
    IN  [success |-> BatchSuccess(successfulFiles),
         totalQuestions |-> CountQuestions(processed),
         totalFiles |-> Len(processed),
         skippedFiles |-> Len(SkippedResults(norm)),
         errors |-> res.errors \o AllErrors(norm)]

\* catch (error) of processPdfsDirectly
BatchFailed(msg) == [kind |-> "batch", chunk |-> 0, msg |-> msg]

\* options.maxFiles ? pdfFiles.slice(0, options.maxFiles) : pdfFiles
FilesToProcess(files, most) ==
    IF most # 0 THEN SubSeq(files, 1, Min(most, Len(files))) ELSE files


\* The files findPdfFiles may find: a name, a page count and, for each unit
\* of one page, the answer of the service that ends the unit.
Cgl2023 == <<"c", "g", "l", "-", "2", "0", "2", "3", ".", "p", "d", "f">>
Cgl2019 == <<"c", "g", "l", "-", "2", "0", "1", "9", ".", "p", "d", "f">>
Notes == <<"n", "o", "t", "e", "s", ".", "p", "d", "f">>
PdfFile(name, answers) ==
    [name |-> name, pages |-> Len(answers), answers |-> answers, corrupt |-> FALSE]
\* a file that is no PDF: PDFDocument.load throws
CorruptFile(name) == [name |-> name, pages |-> 0, answers |-> <<>>, corrupt |-> TRUE]
FilePool ==
    { PdfFile(Cgl2023, << ArrayResponse(OneItem) >>),
      PdfFile(Cgl2023, << SkipResponse("document", "Not the configured exam") >>),
      PdfFile(Cgl2023, << NoJsonResponse >>),
      PdfFile(Cgl2023, << >>),
      CorruptFile(Cgl2023),
      PdfFile(Notes, << ArrayResponse(OneItem), SkipResponse("chunk", "Answer key section") >>),
      PdfFile(Cgl2019, << ArrayResponse(OneItem) >>) }

\* allowedYears and strictYearFiltering of the examContext of a batch
BatchContexts ==
    { [years |-> <<>>, strict |-> FALSE],
      [years |-> << <<"2", "3">> >>, strict |-> FALSE],
      [years |-> << <<"2", "3">> >>, strict |-> TRUE] }

\* The state at the call of processPdfsDirectly(inputDir, config, examContext,
\* options) with options.fileConcurrency = conc.
BatEntry(conc) ==
    /\ batPc = "call"
    /\ \E n \in 0..MaxFiles : pdfFiles \in [1..n -> FilePool]
    /\ maxFiles \in 0..MaxFiles
    /\ normalizedResults = <<>> /\ batch = EmptyBatch
    /\ \E ctx \in BatchContexts :
          /\ allowedYearsIn = ctx.years /\ batchYears = ctx.years
          /\ strictYearFiltering = ctx.strict
    /\ fltPc = "idle" /\ fileName = <<>> /\ allowedYears = <<>>
    /\ filterCheck = [shouldProcess |-> TRUE, reason |-> "none", detectedYear |-> NoDetail]
    /\ impl = "rethrow" /\ worker = "processPdfWithClaude" /\ items = <<>>
    /\ concurrency = conc
    /\ idx = 0 /\ results = <<>> /\ runner = <<>> /\ invoked = <<>> /\ settled = <<>>
    /\ dpc = "idle"
    /\ SegIdle /\ ChunkIdle /\ DocIdle /\ PgIdle /\ DdIdle /\ CrawlIdle

BatInit == \E conc \in 1..MaxConcurrency : BatEntry(conc)

\* findPdfFiles, the slice to maxFiles, normalizeYears on the shared
\* examContext and the call of runWithConcurrency; no file is an error caught
\* by the catch block of processPdfsDirectly.
BatchStart ==
    /\ batPc = "call"
    /\ IF Len(pdfFiles) = 0
       THEN /\ batch' = [batch EXCEPT !.success = FALSE,
                                      !.errors = Append(@, BatchFailed("No PDF files found"))]
            /\ batPc' = "done"
            /\ UNCHANGED <<dispVars, batchYears>>
       ELSE /\ batchYears' = IF Len(allowedYearsIn) > 0 THEN NormalizeYears(allowedYearsIn)
                             ELSE allowedYearsIn
            /\ StartRun(impl, FilesToProcess(pdfFiles, maxFiles), worker, concurrency)
            /\ batPc' = "files"
            /\ UNCHANGED batch
    /\ UNCHANGED <<pdfFiles, maxFiles, normalizedResults>>
    /\ UNCHANGED <<fltPc, fileName, allowedYearsIn, strictYearFiltering, allowedYears, filterCheck>>
    /\ UNCHANGED <<segVars, chunkVars, docVars, pgVars, ddVars, crawlVars>>

\* processPdfWithClaude returns for the file of runner r; the worker's
\* try/catch lets nothing escape, and the runner continues.
FileReturns(r) ==
    /\ batPc = "files"
    /\ runner[r].pc = "await"
    /\ RunnerContinue(r, FileValue(DocumentResultOf(At(items, runner[r].i), batchYears,
                                                    strictYearFiltering, pagesPerChunk)))
    /\ UNCHANGED <<segVars, chunkVars, docVars, fltVars, pgVars, ddVars, batVars, crawlVars>>

\* runWithConcurrency has returned: normalisation, statistics, return.
BatchFinish ==
    /\ batPc = "files"
    /\ dpc = "returned"
    /\ normalizedResults' = [k \in DOMAIN results |-> NormalizeFileResult(results[k])]
    /\ batch' = BatchOf(batch, normalizedResults')
    /\ batPc' = "done"
    /\ UNCHANGED <<pdfFiles, maxFiles>>
    /\ UNCHANGED <<segVars, dispVars, chunkVars, docVars, fltVars, pgVars, ddVars, crawlVars>>

BatNext ==
    \/ BatchStart
    \/ \E r \in DOMAIN runner : FileReturns(r)
    \/ BatchFinish

SpecBatch == BatInit /\ [][BatNext]_vars

\* A document on its own, or a batch of documents.
SpecPipeline == (DocInit \/ BatInit) /\ [][DocNext \/ BatNext]_vars


SkippedMeansEmpty(doc) ==
    doc.skippedReason # NoReason => (doc.questions = <<>> /\ ~doc.success)

\* C11: whenever metadata.skippedReason of a DocumentResult is set, its
\* question list is empty and its success is false: for the result of
\* processPdfWithClaude at every point (pre-filter skip, document skip of the
\* LLM, strict mode with no question), for every result a batch worker
\* returned, for every normalised result of a batch, and for the two results
\* the normalisation itself builds (missing entry, error placeholder).
SkippedReasonInvariant ==
    /\ SkippedMeansEmpty(result)
    /\ \A k \in DOMAIN results :
          (worker = "processPdfWithClaude" /\ ~Missing(results[k])) =>
              SkippedMeansEmpty(results[k].doc)
    /\ \A k \in DOMAIN normalizedResults : SkippedMeansEmpty(normalizedResults[k])
    /\ \A r \in {NoResult, ErrorEntry("ENOENT")} :
          /\ NormalizeFileResult(r).skippedReason.from = "worker"
          /\ SkippedMeansEmpty(NormalizeFileResult(r))

\* A finished batch one document of which was skipped by the LLM after its
\* first unit and another by strict mode.
SkippedReasonInvariantWitness ==
    /\ batPc = "done"
    /\ \E k \in DOMAIN normalizedResults : normalizedResults[k].skippedReason.from = "LLM"
    /\ \E k \in DOMAIN normalizedResults : normalizedResults[k].skippedReason.from = "strict"

\* C12: the batch reports success exactly when at least one of the documents
\* it processed returned success = true; a batch that found no file reports
\* failure.
BatchSuccessRule ==
    batPc = "done" =>
        /\ batch.success = (\E k \in DOMAIN results : results[k].doc.success)
        /\ Len(pdfFiles) = 0 => ~batch.success

\* A successful batch of two documents, one successful and one skipped.
BatchSuccessRuleWitness ==
    /\ batPc = "done"
    /\ batch.success
    /\ Len(results) = 2
    /\ \E k \in DOMAIN results : results[k].doc.success
    /\ \E k \in DOMAIN results :
          ~results[k].doc.success /\ results[k].doc.skippedReason # NoReason


(***************************************************************************)
(* A document of three units: 20 pages, pagesPerChunk = 8. The service     *)
(* answers unit 1 with five items, unit 2 with a chunk skip and unit 3     *)
(* with three items, one of them on the page and with the text of an item  *)
(* of unit 1; any call may also time out.                                  *)
(***************************************************************************)
FiveItems ==
    [p \in 1..5 |-> RawItem(AbsentId, NumPage(p), ShortText)]
ThreeItems ==
    << RawItem(AbsentId, NumPage(1), ShortText),
       RawItem(AbsentId, NumPage(2), OtherText),
       RawItem(AbsentId, NumPage(5), PaddedShortText) >>
ScenarioService ==
    << {ErrorResponse("Request timed out"), ArrayResponse(FiveItems)},
       {ErrorResponse("Request timed out"), SkipResponse("chunk", "Answer key section"),
        SkipResponse("", "Answer key section")},
       {ErrorResponse("Request timed out"), ArrayResponse(ThreeItems)} >>

ScenarioInit ==
    \E conc \in 1..MaxConcurrency, retries \in 0..MaxDocRetries :
        DocEntry(CHOOSE ctx \in DocContexts : ctx.years = <<>>, 20, 8, conc, retries,
                 ScenarioService)

SpecScenario == ScenarioInit /\ [][DocNext]_vars

IsItems(ret, n) == ret.kind = "value" /\ ret.success /\ ~ret.skip /\ Len(ret.questions) = n
IsUnitSkip(ret) == ret.kind = "value" /\ ret.skip /\ ret.skipScope = "chunk"
IsUnitError(ret) == ret.kind = "value" /\ ~ret.success
Keys(qs) == {PageAndPrefix(qs[k]) : k \in DOMAIN qs}

\* C13: the 20-page document with pagesPerChunk = 8 has the units 1-8, 9-16
\* and 17-20; when unit 1 returned 5 items, unit 2 a chunk skip and unit 3
\* 3 items of which one repeats page and text prefix of an item of unit 1, the
\* result has 7 items with 7 different keys, success = true, no error and no
\* skippedReason, and the skip of unit 2 is noted once, on the console.
EndToEndScenario ==
    (docPc = "done" /\ docPages = 20 /\ pagesPerChunk = 8) =>
        /\ chunks = << [fromPage |-> 1, toPage |-> 8], [fromPage |-> 9, toPage |-> 16],
                       [fromPage |-> 17, toPage |-> 20] >>
        /\ (IsItems(returned[1], 5) /\ IsUnitSkip(returned[2]) /\ IsItems(returned[3], 3)) =>
              /\ Len(result.questions) = 7
              /\ Cardinality(Keys(result.questions)) = 7
              /\ result.success
              /\ result.errors = <<>>
              /\ result.skippedReason = NoReason
              /\ Len(console) = 1
              /\ console[1].kind = "chunk-skip" /\ console[1].chunk = 2

\* The scenario happened, its third unit finishing first, and the item of
\* unit 3 on page 5 is the one that was dropped.
EndToEndScenarioWitness ==
    /\ docPc = "done" /\ docPages = 20 /\ pagesPerChunk = 8
    /\ IsItems(returned[1], 5) /\ IsUnitSkip(returned[2]) /\ IsItems(returned[3], 3)
    /\ returned[3].questions[3].pageNo = NumPage(5)
    /\ returned[3].questions[1].pageNo = NumPage(17)
    /\ returned[3].questions[1].id.n < returned[1].questions[1].id.n
    /\ Len(result.questions) = 7


\* What a DocumentResult records of skips: the skip entries of its error list
\* and its skippedReason.
SkipNotesOf(res) ==
    Len(SelectSeq(res.errors, LAMBDA e : e.kind = "skipped"))
        + (IF res.skippedReason # NoReason THEN 1 ELSE 0)

\* C13 as stated: in the scenario the DocumentResult itself has 7 unique
\* items, success = true, one recorded skip note and no fatal error.
EndToEndScenarioAsStated ==
    (docPc = "done" /\ docPages = 20 /\ pagesPerChunk = 8
        /\ IsItems(returned[1], 5) /\ IsUnitSkip(returned[2]) /\ IsItems(returned[3], 3)) =>
        /\ Len(result.questions) = 7
        /\ Cardinality(Keys(result.questions)) = 7
        /\ result.success
        /\ SkipNotesOf(result) = 1
        /\ \A k \in DOMAIN result.errors : result.errors[k].kind = "skipped"


\* C14: a document that passes the pre-filter and has no page yields no
\* unit: runWithConcurrency is never called and no call to the service is
\* made, and the document ends with success = false, no question and a
\* recorded failure, not as an empty success and not as a skip.
ZeroUnitsFail ==
    (docPc \in {"chunks", "done"} /\ docPages = 0 /\ filterCheck.shouldProcess) =>
        /\ docPc = "done"
        /\ chunks = <<>>
        /\ dpc = "idle" /\ invoked = <<>>
        /\ calls = <<>> /\ received = <<>>
        /\ ~result.success
        /\ result.questions = <<>>
        /\ result.errors = <<DocFailed("No chunks produced from PDF")>>
        /\ result.skippedReason = NoReason

\* A document without pages that passed the pre-filter has returned.
ZeroUnitsFailWitness ==
    /\ docPc = "done" /\ docPages = 0
    /\ filterCheck.shouldProcess
    /\ allowedYears # <<>>
    /\ Len(result.errors) = 1

\* C15: under strict filtering, a document all of whose units are done, none
\* with a document skip, and whose de-duplicated items are none, is returned
\* as skipped: skippedReason set, success = false, no questions.
StrictEmptyIsSkipped ==
    (docPc = "done" /\ dpc = "returned" /\ strictYearFiltering /\ DocumentSkips = {}
        /\ FirstOfEachKey(ReturnedQuestions(returned), {}) = <<>>) =>
        /\ result.skippedReason = SkippedStrict
        /\ ~result.success
        /\ result.questions = <<>>
        /\ result.errors[Len(result.errors)] = SkipNote(SkippedStrict)

\* A strict document of two units, one answered with an empty array and one
\* failed, was returned as skipped.
StrictEmptyIsSkippedWitness ==
    /\ docPc = "done" /\ strictYearFiltering
    /\ Len(returned) = 2
    /\ IsItems(returned[1], 0)
    /\ IsUnitError(returned[2])
    /\ result.skippedReason = SkippedStrict


ErrorsNaming(res, i) ==
    {k \in DOMAIN res.errors : res.errors[k].kind = "chunk" /\ res.errors[k].chunk = i + 1}
UnitSkips == {i \in 0..(Len(returned) - 1) : IsUnitSkip(At(returned, i))}
UnitErrors == {i \in 0..(Len(returned) - 1) : IsUnitError(At(returned, i))}
ItemUnits ==
    {i \in 0..(Len(returned) - 1) :
        At(returned, i).success /\ ~At(returned, i).skip /\ Len(At(returned, i).questions) > 0}

LastReceived(k) == received[k][Len(received[k])]
Returned(k) == returned[k] # NoResult /\ received[k] # <<>>

\* C18: a unit whose last answer is an object with skip = true returns a skip
\* with no item, also when the object carries an array of items; none of its
\* items is converted (globalQCounter does not move).
SkipPrecedence ==
    \A k \in DOMAIN returned :
        (Returned(k) /\ LastReceived(k).t = "object" /\ LastReceived(k).skip) =>
            /\ returned[k].skip
            /\ returned[k].questions = <<>>
            /\ Len(returned) = 1 =>
                  globalQCounter = SumSeq([a \in 1..(Len(received[k]) - 1) |->
                                              CounterSteps(received[k][a])])

\* The unit was answered with { skip: true, ..., questions: [one item] } and
\* returned a skip.
SkipPrecedenceWitness ==
    /\ Len(returned) = 1 /\ Returned(1)
    /\ LastReceived(1).skip /\ Len(LastReceived(1).questions) = 1
    /\ returned[1].skip

\* The reasons of the model that mention a year.
YearReasons == {"Wrong YEAR: 2019", "Year 2019 paper"}

\* C19: a skip object with scope "document" makes the unit return a skip of
\* scope "document", one with scope "chunk" a skip of scope "chunk"; without
\* a scope the scope is "document" when the reason mentions a year and
\* "chunk" otherwise. The loop over chunkResults decides by the scope the unit
\* returned: the document is skipped by the LLM exactly when that scope is
\* "document", and otherwise the skip is logged as a chunk skip.
SkipScopeClassification ==
    \A k \in DOMAIN returned :
        (Returned(k) /\ LastReceived(k).t = "object" /\ LastReceived(k).skip) =>
            LET resp == LastReceived(k) IN
            /\ resp.scope = "document" => returned[k].skipScope = "document"
            /\ resp.scope = "chunk" => returned[k].skipScope = "chunk"
            /\ resp.scope = "" =>
                  returned[k].skipScope =
                      (IF resp.reason \in YearReasons THEN "document" ELSE "chunk")
            /\ (dpc = "returned" /\ results[k] = returned[k]) =>
                  ScopeOf(results[k]) = returned[k].skipScope
            /\ (docPc = "done" /\ Len(returned) = 1) =>
                  /\ (result.skippedReason.from = "LLM") = (returned[k].skipScope = "document")
                  /\ Len(console) = 1
                  /\ (console[1].kind = "document-skip") = (returned[k].skipScope = "document")

\* A skip without scope whose reason names the year in capitals made the
\* document a skipped one.
SkipScopeClassificationWitness ==
    /\ docPc = "done" /\ Len(returned) = 1 /\ Returned(1)
    /\ LastReceived(1).skip /\ LastReceived(1).scope = ""
    /\ LastReceived(1).reason = "Wrong YEAR: 2019"
    /\ result.skippedReason = SkippedByLLM("Wrong YEAR: 2019")

\* C20: a unit never returns on an answer whose parsed value is neither a
\* skip object nor an array nor an object with an array-valued field, unless
\* its attempts are used up, and then it returns an error.
ClosedResponseContract ==
    \A k \in DOMAIN returned :
        (Returned(k) /\ LastReceived(k).t = "object" /\ ~LastReceived(k).skip
            /\ ~LastReceived(k).list) =>
            /\ ~returned[k].success
            /\ calls[k] = maxRetries + 1


(***************************************************************************)
(* Retry policy of processChunk                                            *)
(***************************************************************************)
\* Attempt number a of the chunk at index k - 1 failed: it was one of the
\* maxRetries + 1 attempts; when it was not the last of them it was followed
\* by a wait of a * BaseDelay ms and by the next call, and when it was the
\* last one processChunk returned the error of that attempt and no call
\* followed.
FailedAttemptHandled(k, a) ==
    /\ a <= maxRetries + 1
    /\ calls[k] >= a
    /\ IF a <= maxRetries
       THEN /\ Len(delays[k]) >= a
            /\ delays[k][a] = a * BaseDelay
            /\ attempt[k] >= a + 1
            /\ calls[k] >= a + 1
       ELSE /\ Len(delays[k]) = maxRetries
            /\ calls[k] = a
            /\ Len(received[k]) = a
            /\ returned[k] = ChunkError(FailureMessage(received[k][a]))

\* C21: an attempt whose response holds no JSON is a failed attempt handled
\* exactly like an attempt whose call was rejected: it uses up one of the
\* maxRetries + 1 attempts, is followed by the same wait and the next call
\* while attempts remain, and makes processChunk return an error once they
\* are used up.
UniformRetryPolicy ==
    \A k \in DOMAIN received : \A a \in DOMAIN received[k] :
        /\ received[k][a].t = "nojson" => FailedAttemptHandled(k, a)
        /\ received[k][a].t = "error" => FailedAttemptHandled(k, a)

\* A unit with two retries whose three attempts failed, the first and the
\* last for want of JSON and the second by a rejected call, has returned the
\* error of the last attempt.
UniformRetryPolicyWitness ==
    \E k \in DOMAIN received :
        /\ maxRetries = 2 /\ Len(received[k]) = 3
        /\ received[k][1].t = "nojson"
        /\ received[k][2].t = "error"
        /\ received[k][3].t = "nojson"
        /\ returned[k] = ChunkError("No JSON found in chunk response")
        /\ delays[k] = <<BaseDelay, 2 * BaseDelay>>


\* The number of failed attempts of the chunk at index k - 1 so far.
FailedAttempts(k) == Cardinality({a \in DOMAIN received[k] : Fails(received[k][a])})

\* C29: after the failed attempt number a that is not the last allowed one
\* processChunk waits a * 1000 ms before attempt a + 1, so the waits of a
\* unit are 1000, 2000, ... and strictly increase; the last allowed attempt
\* is followed by no wait: a unit never waits more than maxRetries times, and
\* one that returned an error waited once less than it failed.
LinearBackoff ==
    \A k \in DOMAIN delays :
        /\ \A a \in DOMAIN delays[k] :
              /\ delays[k][a] = a * 1000
              /\ Fails(received[k][a])
              /\ a <= maxRetries
              /\ a > 1 => delays[k][a] > delays[k][a - 1]
        /\ Len(delays[k]) <= maxRetries
        /\ Len(delays[k]) = Min(FailedAttempts(k), maxRetries)
        /\ (returned[k] # NoResult /\ ~returned[k].success) =>
              /\ FailedAttempts(k) = maxRetries + 1
              /\ Len(delays[k]) = FailedAttempts(k) - 1

\* A unit with three retries failed four times and returned its error after
\* waits of 1000, 2000 and 3000 ms.
LinearBackoffWitness ==
    \E k \in DOMAIN delays :
        /\ maxRetries = 3
        /\ FailedAttempts(k) = 4
        /\ delays[k] = <<1000, 2000, 3000>>
        /\ returned[k] # NoResult /\ ~returned[k].success


\* C22: for a unit [from,to] produced by splitPdfIntoChunks and an item
\* whose numeric raw page is a valid page relative to the unit
\* (1..to-from+1) or a valid absolute page of the unit (from..to), the
\* persisted page is a page of the document inside [from,to]: a relative page
\* is moved into the unit and an absolute page of the unit stays what it is.
AbsolutePage ==
    LET p == pgRaw.n
        from == pgChunk.fromPage
        to == pgChunk.toPage
        relative == 1 <= p /\ p <= to - from + 1
        absolute == from <= p /\ p <= to
    IN  (pgPc = "done" /\ pgRaw.t = "num" /\ (relative \/ absolute)) =>
            /\ pgOut.t = "num"
            /\ from <= pgOut.n /\ pgOut.n <= to
            /\ absolute => pgOut.n = p

\* In the unit 9-16, an item that gave the relative page 8 is persisted with
\* page 16.
AbsolutePageWitness ==
    /\ pgPc = "done"
    /\ pgChunk = [fromPage |-> 9, toPage |-> 16]
    /\ pgRaw = NumPage(8)
    /\ pgOut = NumPage(16)


(***************************************************************************)
(* The statistics and the failures of a batch                              *)
(***************************************************************************)
\* The indices (from 1) of the normalised results without and with a
\* skippedReason.
ProcessedDocs == {k \in DOMAIN normalizedResults : normalizedResults[k].skippedReason = NoReason}
SkippedDocs == {k \in DOMAIN normalizedResults : normalizedResults[k].skippedReason # NoReason}

\* C23: in the result of a batch every dispatched document is counted once,
\* as processed (no skippedReason) or as skipped (skippedReason set):
\* totalFiles + skippedFiles is the number of documents dispatched, there is
\* one result per document, and totalQuestions is the sum of the question
\* counts of the processed documents with success = true.
BatchCounts ==
    (batPc = "done" /\ Len(pdfFiles) > 0) =>
        /\ Len(items) = Len(FilesToProcess(pdfFiles, maxFiles))
        /\ Len(normalizedResults) = Len(items)
        /\ batch.totalFiles = Cardinality(ProcessedDocs)
        /\ batch.skippedFiles = Cardinality(SkippedDocs)
        /\ batch.totalFiles + batch.skippedFiles = Len(items)
        /\ batch.totalQuestions =
              SumSeq([k \in DOMAIN normalizedResults |->
                         IF k \in ProcessedDocs /\ normalizedResults[k].success
                         THEN Len(normalizedResults[k].questions) ELSE 0])

\* A batch of two documents, one skipped and one processed without success:
\* one file counted on each side and no question.
BatchCountsWitness ==
    /\ batPc = "done"
    /\ Len(items) = 2
    /\ batch.totalFiles = 1 /\ batch.skippedFiles = 1 /\ batch.totalQuestions = 0
    /\ \E k \in ProcessedDocs : ~normalizedResults[k].success


\* What processPdfWithClaude returns for the dispatched file at index k - 1.
OwnResult(k) == DocumentResultOf(items[k], batchYears, strictYearFiltering, pagesPerChunk)

\* The dispatched files that pass the pre-filter and cannot be split: no PDF,
\* or a PDF without pages.
FailingFiles ==
    {k \in DOMAIN items :
        /\ ShouldProcessPdf(items[k].name, NormalizeYears(batchYears),
                            strictYearFiltering).shouldProcess
        /\ items[k].corrupt \/ items[k].pages = 0}

\* C24: a document whose processing fails (a file that cannot be loaded, no
\* page to split) gets a failed result with the error recorded in it, every
\* other document of the batch still gets its own result, and the failure is
\* never thrown out of runWithConcurrency or of the batch; an exception that
\* reached the worker's own catch would become a failed result as well.
DocumentFailureIsolation ==
    /\ worker = "processPdfWithClaude" =>
          /\ dpc # "threw"
          /\ \A r \in DOMAIN runner : runner[r].pc # "rejected"
    /\ (batPc = "done" /\ Len(pdfFiles) > 0) =>
          /\ Len(normalizedResults) = Len(items)
          /\ \A k \in DOMAIN items : normalizedResults[k] = OwnResult(k)
          /\ \A k \in FailingFiles :
                /\ ~normalizedResults[k].success
                /\ normalizedResults[k].questions = <<>>
                /\ normalizedResults[k].skippedReason = NoReason
                /\ Len(normalizedResults[k].errors) = 1
                /\ normalizedResults[k].errors[1].kind = "failed"
                /\ normalizedResults[k].errors[1].msg \in
                       {LoadError, "No chunks produced from PDF"}
                /\ \E e \in DOMAIN batch.errors :
                       batch.errors[e] = normalizedResults[k].errors[1]
    /\ LET caught == CaughtByWorker(LoadError)
       IN  /\ ~caught.success /\ caught.questions = <<>>
           /\ caught.errors[1].msg = LoadError
           /\ NormalizeFileResult([kind |-> "value", doc |-> caught]) = caught

\* A finished batch whose first file could not be loaded and whose second
\* file was processed with success.
DocumentFailureIsolationWitness ==
    /\ batPc = "done"
    /\ Len(items) = 2
    /\ items[1].corrupt
    /\ normalizedResults[1].errors = <<DocFailed(LoadError)>>
    /\ normalizedResults[2].success
    /\ Len(normalizedResults[2].questions) = 1
    /\ batch.success


\* The errors of the units that returned an error, in index order, as the
\* loop over chunkResults records them.
RECURSIVE UnitErrorsFrom(_, _)
UnitErrorsFrom(rets, i) ==
    IF i >= Len(rets) THEN <<>>
    ELSE (IF IsUnitError(At(rets, i)) THEN <<ChunkFailed(i, At(rets, i).error)>> ELSE <<>>)
            \o UnitErrorsFrom(rets, i + 1)

\* A document result of non-strict mode without a question and without a skip.
EmptyFailure(doc) ==
    /\ ~doc.success
    /\ doc.questions = <<>>
    /\ doc.skippedReason = NoReason

NoCancellation ==
    /\ worker = "processChunk" =>
          /\ dpc # "threw"
          /\ \A r \in DOMAIN runner : runner[r].pc # "rejected"
          /\ \A k \in DOMAIN invoked : invoked[k] <= 1
    /\ (docPc = "done" /\ chunks # <<>>) =>
          /\ dpc = "returned"
          /\ Len(results) = Len(chunks)
          /\ \A k \in DOMAIN chunks :
                /\ invoked[k] = 1 /\ settled[k] = 1
                /\ calls[k] >= 1
                /\ returned[k] # NoResult
                /\ results[k] = returned[k]
          /\ DocumentSkips # {} =>
                /\ result.questions = <<>>
                /\ ~result.success
                /\ result.skippedReason.from = "LLM"

\* One unit at a time: the first unit returned a document skip, the second
\* was dispatched after it and returned an item, and the document is skipped
\* without that item.
NoCancellationWitness ==
    /\ docPc = "done" /\ concurrency = 1
    /\ Len(chunks) = 2
    /\ DocumentSkips = {0}
    /\ IsItems(returned[2], 1)
    /\ calls[2] >= 1
    /\ result.questions = <<>>


\* What processChunk returns for the chunk at index k - 1 when no other unit
\* of the document has converted an item before it.
OutcomeAlone(k) == OutcomeOf(chunks[k], LastReceived(k), 0)

\* C27: what processChunk returns for a unit, the generated ids of its
\* questions included, is determined by the unit and by the answers of the
\* service to it: it is what the unit returns when it is the first to
\* convert its items, whatever the other units did before it.
UnitProcessorPurity ==
    \A k \in DOMAIN returned : Returned(k) => returned[k] = OutcomeAlone(k)


\* C28: extraction proceeds only when both gates pass. A document the
\* filename pre-filter rejects is returned with its skippedReason set before
\* the file is read or split, and no call to the service is ever made for it;
\* a document that reaches the split or the units passed the pre-filter, and
\* a result with questions passed the pre-filter and had no document skip.
PreFilterGateOrdering ==
    worker = "processChunk" =>
        /\ docPc \in {"split", "chunks"} => filterCheck.shouldProcess
        /\ (docPc # "filter" /\ ~filterCheck.shouldProcess) =>
              /\ docPc = "done"
              /\ result.skippedReason = SkippedByFilter(filterCheck.reason)
              /\ ~result.success /\ result.questions = <<>>
              /\ chunks = <<>> /\ items = <<>>
              /\ dpc = "idle" /\ invoked = <<>>
              /\ calls = <<>> /\ received = <<>> /\ returned = <<>>
        /\ (result.success \/ result.questions # <<>>) =>
              /\ filterCheck.shouldProcess
              /\ DocumentSkips = {}

\* A document of two pages whose file name carries a year that is not
\* allowed: returned as skipped by the filter, never split, no call made.
PreFilterGateOrderingWitness ==
    /\ worker = "processChunk" /\ docPc = "done"
    /\ docPages = 2
    /\ ~filterCheck.shouldProcess
    /\ result.skippedReason.from = "filter"
    /\ chunks = <<>> /\ calls = <<>>


(***************************************************************************)
(* Crawler: discoverAllPdfsRecursive (src/scraper/httpCrawler.ts)          *)
(*                                                                         *)
(* A URL is its hostname and the words of its path. The function is one    *)
(* sequential loop; it waits for fetchHtml once per iteration, and nothing *)
(* else reads or writes its queue and its sets.                            *)
(***************************************************************************)
Url(host, path) == [host |-> host, path |-> path]
SeedUrl == Url("ssc.example", <<>>)
ArchiveUrl == Url("ssc.example", <<"archive">>)
YearUrl == Url("ssc.example", <<"archive", "2023">>)
ExternalUrl == Url("other.example", <<"archive">>)
PdfA == Url("ssc.example", <<"archive", "a.pdf">>)
PdfB == Url("cdn.example", <<"b.pdf">>)

\* new URL(url).hostname
Hostname(url) == url.host

HasWord(url, words) == \E k \in DOMAIN url.path : url.path[k] \in words

\* getPriorityScore: the words of the URL it looks for, and one point off for
\* every "/" beyond the fifth ("https://host" has two, every word of the
\* path one more)
GetPriorityScore(url) ==
    LET pathDepth == 2 + Len(url.path)
    IN  (IF HasWord(url, {"pdf", "download", "question", "paper", "previous", "exam",
                          "archive"}) THEN 10 ELSE 0)
        + (IF HasWord(url, {"2015", "2016", "2017", "2018", "2019", "2020", "2021",
                            "2022", "2023", "2024", "2025"}) THEN 8 ELSE 0)
        + (IF HasWord(url, {"tier", "phase", "shift", "english", "hindi", "mathematics",
                            "reasoning", "gk"}) THEN 6 ELSE 0)
        + (IF HasWord(url, {"recruitment", "selection", "notification", "result"})
           THEN 4 ELSE 0)
        - (IF pathDepth - 5 > 0 THEN pathDepth - 5 ELSE 0)

\* newLinks.sort((a, b) => bScore - aScore): a stable sort, highest score first
RECURSIVE InsertByScore(_, _)
InsertByScore(sorted, e) ==
    IF sorted = <<>> THEN <<e>>
    ELSE IF GetPriorityScore(Head(sorted).url) >= GetPriorityScore(e.url)
    THEN <<Head(sorted)>> \o InsertByScore(Tail(sorted), e)
    ELSE <<e>> \o sorted
RECURSIVE SortByPriority(_)
SortByPriority(entries) ==
    IF entries = <<>> THEN <<>>
    ELSE InsertByScore(SortByPriority(SubSeq(entries, 1, Len(entries) - 1)),
                       entries[Len(entries)])

\* a crawler that remembers no page
SeenNothing(seen, url) == FALSE

\* seenPages.has(url)
SeenPagesHas(seen, url) == url \in seen

\* pdfs.forEach(pdf => discoveredPdfs.add(pdf)) on a Set kept in insertion order
RECURSIVE AddPdfs(_, _)
AddPdfs(found, pdfs) ==
    IF pdfs = <<>> THEN found
    ELSE AddPdfs(IF \E k \in DOMAIN found : found[k] = Head(pdfs) THEN found
                 ELSE Append(found, Head(pdfs)),
                 Tail(pdfs))

\* linksToFollow.filter(link => !seenPages.has(link)).map(link => ({ url, depth + 1 }))
RECURSIVE NewLinks(_, _, _)
NewLinks(links, seen, depth) ==
    IF links = <<>> THEN <<>>
    ELSE (IF SeenPagesHas(seen, Head(links)) THEN <<>>
          ELSE <<[url |-> Head(links), depth |-> depth + 1]>>)
            \o NewLinks(Tail(links), seen, depth)

\* the new entries put in front of the queue: depth first
EnqueueInFront(q, entries) == entries \o q

\* queue.push(...prioritized)
Enqueue(q, entries) == q \o entries

\* What parsePageForLinks may find on a page of the site; the notice page
\* links to nothing.
NoticeUrl == Url("ssc.example", <<"notice">>)
SitePages == {SeedUrl, ArchiveUrl, YearUrl}
LinkLists ==
    { <<>>,
      <<ArchiveUrl, YearUrl, ArchiveUrl>>,
      <<SeedUrl, ExternalUrl, YearUrl>>,
      <<NoticeUrl, SeedUrl>> }
PdfLists == { <<>>, <<PdfA, PdfB, PdfA>> }
Sites ==
    { [u \in SitePages \cup {NoticeUrl} |->
          IF u = NoticeUrl THEN [linksToFollow |-> <<>>, pdfs |-> <<>>] ELSE pages[u]] :
        pages \in [SitePages -> [linksToFollow : LinkLists, pdfs : PdfLists]] }

\* while (queue.length > 0 && pagesVisited < maxPages && discoveredPdfs.size < maxPdfsToFind)
CrawlContinues ==
    Len(queue) > 0 /\ pagesVisited < maxPages /\ Len(discoveredPdfs) < maxPdfsToFind


\* The state at the call discoverAllPdfsRecursive(seedUrl, opts), after the
\* declarations: the queue holds the seed at depth 0.
CrawlInit ==
    /\ crPc = "loop"
    /\ site \in Sites
    /\ maxDepth \in 0..MaxCrawlDepth
    /\ maxPages \in 1..MaxCrawlPages
    /\ maxPdfsToFind \in 1..MaxPdfLimit
    /\ queue = <<[url |-> SeedUrl, depth |-> 0]>>
    /\ seenPages = {} /\ discoveredPdfs = <<>> /\ pagesVisited = 0
    /\ current = NoEntry /\ fetched = <<>> /\ depths = <<>>
    /\ enqueued = <<SeedUrl>>
    /\ crawlOut = <<>>
    /\ SegIdle /\ DispIdle /\ ChunkIdle /\ DocIdle /\ FltIdle /\ PgIdle /\ DdIdle /\ BatIdle

\* queue.shift() and the tests before fetchHtml: an entry already seen, too
\* deep or of another host is dropped, any other is fetched.
CrawlDequeue ==
    LET entry == Head(queue) IN
    /\ crPc = "loop"
    /\ CrawlContinues
    /\ queue' = Tail(queue)
    /\ IF \/ SeenPagesHas(seenPages, entry.url)
          \/ entry.depth > maxDepth
          \/ Hostname(entry.url) # Hostname(SeedUrl)
       THEN UNCHANGED <<crPc, current>>
       ELSE crPc' = "fetch" /\ current' = entry
    /\ UNCHANGED <<site, maxDepth, maxPages, maxPdfsToFind, seenPages, discoveredPdfs,
                   pagesVisited, fetched, depths, enqueued, crawlOut>>
    /\ UNCHANGED <<segVars, dispVars, chunkVars, docVars, fltVars, pgVars, ddVars, batVars>>

\* fetchHtml has answered (null when ok is false): the rest of the iteration,
\* and the return when the PDF limit is reached.
CrawlFetched(ok) ==
    LET page == site[current.url]
        found == AddPdfs(discoveredPdfs, page.pdfs)
        prioritized == SortByPriority(
                           NewLinks(page.linksToFollow, seenPages', current.depth))
    IN
    /\ crPc = "fetch"
    /\ fetched' = Append(fetched, current.url)
    /\ depths' = Append(depths, current.depth)
    /\ pagesVisited' = pagesVisited + 1
    /\ seenPages' = seenPages \cup {current.url}
    /\ current' = NoEntry
    /\ IF ~ok
       THEN /\ crPc' = "loop"
            /\ UNCHANGED <<discoveredPdfs, queue, enqueued, crawlOut>>
       ELSE /\ discoveredPdfs' = found
            /\ IF Len(found) >= maxPdfsToFind
               THEN /\ crPc' = "done"
                    /\ crawlOut' = found
                    /\ UNCHANGED <<queue, enqueued>>
               ELSE /\ crPc' = "loop"
                    /\ IF current.depth < maxDepth
                       THEN /\ queue' = Enqueue(queue, prioritized)
                            /\ enqueued' = enqueued \o [k \in DOMAIN prioritized |->
                                                           prioritized[k].url]
                       ELSE UNCHANGED <<queue, enqueued>>
                    /\ UNCHANGED crawlOut
    /\ UNCHANGED <<site, maxDepth, maxPages, maxPdfsToFind>>
    /\ UNCHANGED <<segVars, dispVars, chunkVars, docVars, fltVars, pgVars, ddVars, batVars>>

\* The loop condition fails: return Array.from(discoveredPdfs)
CrawlReturn ==
    /\ crPc = "loop"
    /\ ~CrawlContinues
    /\ crPc' = "done"
    /\ crawlOut' = discoveredPdfs
    /\ UNCHANGED <<site, maxDepth, maxPages, maxPdfsToFind, queue, seenPages,
                   discoveredPdfs, pagesVisited, current, fetched, depths, enqueued>>
    /\ UNCHANGED <<segVars, dispVars, chunkVars, docVars, fltVars, pgVars, ddVars, batVars>>

CrawlNext ==
    \/ CrawlDequeue
    \/ \E ok \in BOOLEAN : CrawlFetched(ok)
    \/ CrawlReturn

SpecCrawl == CrawlInit /\ [][CrawlNext]_vars

Times(seq, x) == Cardinality({k \in DOMAIN seq : seq[k] = x})

\* C30: during one crawl fetchHtml is called at most once with any URL, even
\* a URL that was put on the queue several times, every fetch is of a page
\* of the seed's host, and the array returned holds each discovered PDF URL
\* at most once.
CrawlerDuplicateDetection ==
    /\ \A k \in DOMAIN fetched :
          /\ Times(fetched, fetched[k]) = 1
          /\ fetched[k] \in seenPages
          /\ Hostname(fetched[k]) = Hostname(SeedUrl)
    /\ Len(fetched) = pagesVisited
    /\ \A k \in DOMAIN discoveredPdfs : Times(discoveredPdfs, discoveredPdfs[k]) = 1
    /\ crPc = "done" =>
          /\ crawlOut = discoveredPdfs
          /\ \A k \in DOMAIN crawlOut : Times(crawlOut, crawlOut[k]) = 1

\* A finished crawl of three pages in which the archive page was put on the
\* queue more than once and the same two PDFs were linked, twice over, from
\* two of the pages.
CrawlerDuplicateDetectionWitness ==
    /\ crPc = "done"
    /\ Times(enqueued, ArchiveUrl) >= 2
    /\ Times(fetched, ArchiveUrl) = 1
    /\ Len(fetched) = 3
    /\ site[SeedUrl].pdfs = <<PdfA, PdfB, PdfA>>
    /\ site[ArchiveUrl].pdfs = <<PdfA, PdfB, PdfA>>
    /\ crawlOut = <<PdfA, PdfB>>


Sorted(seq) == \A i, j \in DOMAIN seq : i < j => seq[i] <= seq[j]

\* C31: the pages are fetched in non-decreasing order of the depth at which
\* their link was found, the seed having depth 0, whatever the order the
\* priority scores give to the links of one page: the queue is first in,
\* first out, and holds its entries in non-decreasing depth, none above the
\* page being fetched by more than one.
BreadthFirstTraversal ==
    /\ Sorted(depths)
    /\ Sorted([k \in DOMAIN queue |-> queue[k].depth])
    /\ \A k \in DOMAIN queue :
          /\ depths # <<>> => queue[k].depth >= depths[Len(depths)]
          /\ depths # <<>> => queue[k].depth <= depths[Len(depths)] + 1
          /\ crPc = "fetch" => queue[k].depth >= current.depth

\* A finished crawl that fetched the seed, then the year page, which the
\* score put before the archive page, then the archive page, both of depth 1,
\* and then the notice page of depth 2.
BreadthFirstTraversalWitness ==
    /\ crPc = "done"
    /\ Len(fetched) = 4
    /\ fetched[2] = YearUrl /\ fetched[3] = ArchiveUrl /\ fetched[4] = NoticeUrl
    /\ site[SeedUrl].linksToFollow = <<ArchiveUrl, YearUrl, ArchiveUrl>>
    /\ depths = <<0, 1, 1, 2>>


\* No runner of the run is waiting for its worker any more.
RunOver == dpc \notin {"idle", "call"} /\ \A r \in DOMAIN runner : runner[r].pc # "await"

\* C32: in a run with bound K >= 1 every index 0..N-1 is claimed by exactly
\* one runner and process is invoked exactly once on every item: never twice
\* while the run lasts, two waiting runners never hold the same index, a
\* slot of results is written only for an index whose invocation finished,
\* and once no runner is waiting every item has been invoked.
ExactlyOnceDispatch ==
    (worker = "process" /\ concurrency >= 1 /\ dpc # "call") =>
        /\ \A k \in DOMAIN invoked : invoked[k] <= 1 /\ settled[k] <= invoked[k]
        /\ \A r, q \in DOMAIN runner :
              (r # q /\ runner[r].pc = "await" /\ runner[q].pc = "await") =>
                  runner[r].i # runner[q].i
        /\ \A k \in DOMAIN results : results[k] # NoResult => settled[k] = 1
        /\ RunOver => \A k \in DOMAIN invoked : invoked[k] = 1


\* The four outcomes of a unit, as tests on what processChunk returned.
OutcomeTags(ret) ==
    {tag \in {"Items", "UnitSkip", "DocumentSkip", "Error"} :
        /\ ret.kind = "value"
        /\ \/ tag = "Items" /\ ret.success /\ ~ret.skip
           \/ tag = "UnitSkip" /\ ret.success /\ ret.skip /\ ret.skipScope # "document"
           \/ tag = "DocumentSkip" /\ ret.success /\ ret.skip /\ ret.skipScope = "document"
           \/ tag = "Error" /\ ~ret.success /\ ~ret.skip}

\* C33: for every unit and every maxRetriesPerChunk >= 0, processChunk ends
\* with exactly one of the outcomes Items, UnitSkip, DocumentSkip and Error:
\* every invocation that finished returned a value, the value carries one
\* tag, and the entry of chunkResults is that value, so the loop over
\* chunkResults never records that a chunk produced no result.
SingleTerminalOutcome ==
    (worker = "processChunk" /\ maxRetries >= 0) =>
        /\ \A k \in DOMAIN settled :
              settled[k] = 1 =>
                  /\ ~Missing(returned[k])
                  /\ Cardinality(OutcomeTags(returned[k])) = 1
                  /\ calls[k] <= maxRetries + 1
        /\ dpc = "returned" =>
              /\ Len(results) = Len(chunks)
              /\ \A k \in DOMAIN results : ~Missing(results[k]) /\ results[k] = returned[k]
        /\ docPc = "done" =>
              \A e \in DOMAIN result.errors : result.errors[e].msg # "produced no result"

\* A unit with three retries whose four attempts failed has returned an
\* Error, and the document has recorded that error.
SingleTerminalOutcomeWitness ==
    /\ worker = "processChunk" /\ docPc = "done"
    /\ maxRetries = 3
    /\ Len(returned) = 1 /\ calls[1] = 4
    /\ OutcomeTags(returned[1]) = {"Error"}
    /\ Len(result.errors) = 1 /\ result.errors[1].kind = "chunk"


\* The questions the units of the document have returned so far, in index
\* order.
AllReturned == ReturnedQuestions(SelectSeq(returned, LAMBDA ret : ret # NoResult))

GeneratedIdsDistinct(qs) ==
    \A i, j \in DOMAIN qs :
        (i # j /\ qs[i].id.generated /\ qs[j].id.generated) => qs[i].id # qs[j].id

\* C34: within one document the questions whose id was generated have
\* pairwise different ids, across all units, in whatever order the answers
\* and the retries of concurrently processed units arrive: among all
\* questions the units returned and among the questions of the result; the
\* counter has counted every converted item once.
UniqueGeneratedIds ==
    worker = "processChunk" =>
        /\ GeneratedIdsDistinct(AllReturned)
        /\ GeneratedIdsDistinct(result.questions)
        /\ globalQCounter >= Len(AllReturned)
        /\ \A k \in DOMAIN AllReturned :
              AllReturned[k].id.generated =>
                  AllReturned[k].id.n >= 1 /\ AllReturned[k].id.n <= globalQCounter

\* Two units processed at the same time, the second answered first after a
\* retry of the first: each returned a question with a generated id, q1 for
\* the second unit and q2 for the first, and both are in the result.
UniqueGeneratedIdsWitness ==
    /\ docPc = "done" /\ concurrency = 2 /\ Len(returned) = 2
    /\ Len(received[1]) = 2
    /\ IsItems(returned[1], 1) /\ IsItems(returned[2], 1)
    /\ returned[1].questions[1].id = GeneratedId(2)
    /\ returned[2].questions[1].id = GeneratedId(1)
    /\ Len(result.questions) = 2


\* C35: a unit contributes items from at most one attempt, the one that
\* succeeded: every attempt before the last one failed, the items the unit
\* returned are the items of the last answer alone, a unit whose last attempt
\* failed returned no item, and the document holds no more questions than the
\* units returned, so an attempt that failed after some of its items were
\* converted leaves nothing behind when it is retried.
NoPartialContribution ==
    worker = "processChunk" =>
        /\ \A k \in DOMAIN returned :
              Returned(k) =>
                  LET last == LastReceived(k) IN
                  /\ \A a \in 1..(Len(received[k]) - 1) :
                        received[k][a].t \in {"error", "nojson", "brokenarray"}
                  /\ IF returned[k].success /\ ~returned[k].skip
                     THEN /\ last.t \in {"array", "object"}
                          /\ Len(returned[k].questions) =
                                 (IF last.list THEN Len(last.questions) ELSE 0)
                          /\ \A j \in DOMAIN returned[k].questions :
                                returned[k].questions[j].text = last.questions[j].text
                     ELSE returned[k].questions = <<>>
        /\ Len(result.questions) <= Len(AllReturned)

\* The first answer of the unit was an array of one item and a null, the
\* retry was answered with an array of one item: the document holds one
\* question, numbered after the two steps the counter made in the failed
\* attempt.
NoPartialContributionWitness ==
    /\ docPc = "done" /\ Len(returned) = 1
    /\ received[1] = <<BrokenArrayResponse(OneItem), ArrayResponse(OneItem)>>
    /\ Len(result.questions) = 1
    /\ result.questions[1].id = GeneratedId(3)
    /\ result.errors = <<>>


\* Every continuation that can run does run: a worker call that has been made
\* ends, and its runner goes on.
SpecDispLive == SpecDisp /\ WF_vars(DispNext)

\* C36: when every invocation of process ends, a run over N items with a
\* bound K >= 1 returns to its caller, and when it has returned every one of
\* the N slots of results holds a result.
DispatcherTermination ==
    (dpc = "call" /\ concurrency >= 1) ~>
        (/\ dpc = "returned"
         /\ Len(results) = Len(items)
         /\ \A k \in DOMAIN results : results[k] # NoResult)


(***************************************************************************)
(* Runs with any concurrency bound, the bounds below 1 included            *)
(***************************************************************************)
LowBounds == {0 - 1, 0, 1}

\* A call of runWithConcurrency (either copy), of processPdfWithClaude with
\* options.chunkConcurrency, or of processPdfsDirectly with
\* options.fileConcurrency, the bound taken from LowBounds for the last two.
BoundInit ==
    \/ DispInit
    \/ \E ctx \in DocContexts, pages \in 1..MaxDocPages, conc \in LowBounds,
          retries \in 0..MaxDocRetries :
           DocEntry(ctx, pages, 1, conc, retries, ForEachUnit(pages, 1, DocResponses))
    \/ \E conc \in LowBounds : BatEntry(conc)

SpecAnyBound == BoundInit /\ [][DispNext \/ DocNext \/ BatNext]_vars

\* C37: when the bound passed to runWithConcurrency is below 1 and there is
\* at least one item, no runner is started, process is invoked on no item
\* and the run returns at once without a populated result; the document then
\* ends without a question and with success = false, and so does the batch,
\* without a result for any file.
DegenerateConcurrencyBound ==
    (concurrency < 1 /\ Len(items) >= 1 /\ dpc # "call") =>
        /\ runner = <<>>
        /\ dpc = "returned"
        /\ \A k \in DOMAIN invoked : invoked[k] = 0
        /\ \A k \in DOMAIN results : results[k] = NoResult
        /\ worker = "processChunk" =>
              /\ \A k \in DOMAIN calls : calls[k] = 0 /\ returned[k] = NoResult
              /\ docPc = "done" => (result.questions = <<>> /\ ~result.success)
        /\ (worker = "processPdfWithClaude" /\ batPc = "done") =>
              /\ normalizedResults = <<>>
              /\ ~batch.success
              /\ batch.totalQuestions = 0 /\ batch.totalFiles = 0

\* A document of two pages processed with chunkConcurrency = 0 has returned:
\* two units, no call, no question, no success.
DegenerateConcurrencyBoundWitness ==
    /\ worker = "processChunk" /\ docPc = "done"
    /\ concurrency = 0 /\ Len(chunks) = 2
    /\ calls = <<0, 0>>
    /\ result.questions = <<>> /\ ~result.success


(***************************************************************************)
(* flattenBatchResults                                                     *)
(***************************************************************************)
\* the loop left after the first result that contributes
RECURSIVE FlattenFirstOnly(_, _)
FlattenFirstOnly(docs, allQuestions) ==
    IF docs = <<>> THEN allQuestions
    ELSE IF Head(docs).success /\ Head(docs).skippedReason = NoReason
         THEN allQuestions \o Head(docs).questions
         ELSE FlattenFirstOnly(Tail(docs), allQuestions)

\* for (const result of batchResult.results)
\*     if (result.success && !result.metadata.skippedReason)
\*         allQuestions.push(...result.questions)
RECURSIVE FlattenFrom(_, _)
FlattenFrom(docs, allQuestions) ==
    IF docs = <<>> THEN allQuestions
    ELSE FlattenFrom(Tail(docs),
                     IF Head(docs).success /\ Head(docs).skippedReason = NoReason
                     THEN allQuestions \o Head(docs).questions
                     ELSE allQuestions)

\* flattenBatchResults(batchResult), batchResult.results being the
\* normalised results of the batch
FlattenBatchResults(docs) == FlattenFrom(docs, <<>>)

\* the documents that succeeded and were not skipped, in the given order
Contributing(docs) ==
    SelectSeq(docs, LAMBDA d : d.success /\ d.skippedReason = NoReason)

\* the start of the questions of document k within the flattened list
OffsetOf(docs, k) == SumSeq([j \in 1..(k - 1) |-> Len(docs[j].questions)])

\* C38: for every batch processPdfsDirectly returns, flattenBatchResults
\* gives the questions of the documents with success = true and no
\* skippedReason, document after document in the order of the batch results
\* and each document's questions in their own order, and nothing else; the
\* length of its output is BatchResult.totalQuestions.
FlattenAgreesWithTotal ==
    batPc = "done" =>
        LET flat == FlattenBatchResults(normalizedResults)
            docs == Contributing(normalizedResults)
        IN  /\ Len(flat) = SumSeq([k \in DOMAIN docs |-> Len(docs[k].questions)])
            /\ \A k \in DOMAIN docs : \A j \in DOMAIN docs[k].questions :
                  flat[OffsetOf(docs, k) + j] = docs[k].questions[j]
            /\ Len(flat) = batch.totalQuestions

\* A batch of two documents that both succeeded with questions: the flattened
\* list holds the questions of the first and then those of the second.
FlattenAgreesWithTotalWitness ==
    /\ batPc = "done" /\ Len(normalizedResults) = 2
    /\ \A k \in 1..2 : /\ normalizedResults[k].success
                       /\ normalizedResults[k].skippedReason = NoReason
                       /\ normalizedResults[k].questions # <<>>
    /\ FlattenBatchResults(normalizedResults)
          = normalizedResults[1].questions \o normalizedResults[2].questions
    /\ batch.totalQuestions >= 2


\* sub is obtained from seq by leaving items out, the others in their order
RECURSIVE IsSubsequence(_, _)
IsSubsequence(sub, seq) ==
    IF sub = <<>> THEN TRUE
    ELSE IF seq = <<>> THEN FALSE
    ELSE IF Head(sub) = Head(seq) THEN IsSubsequence(Tail(sub), Tail(seq))
    ELSE IsSubsequence(sub, Tail(seq))

\* C39: the de-duplicated list is a subsequence of the concatenated list of
\* questions (the questions kept stay in their relative order), and the same
\* de-duplication applied to the de-duplicated list returns it unchanged.
DedupIdempotentOrdered ==
    ddPc = "done" =>
        /\ IsSubsequence(deduped, accumulatedQuestions)
        /\ \A i, j \in DOMAIN deduped :
              i < j => \E a, b \in DOMAIN accumulatedQuestions :
                          /\ a < b
                          /\ accumulatedQuestions[a] = deduped[i]
                          /\ accumulatedQuestions[b] = deduped[j]
        /\ Dedup(deduped) = deduped

\* Three questions, the second a duplicate of the first: the first and the
\* third are kept in that order, and de-duplicating them again changes
\* nothing.
DedupIdempotentOrderedWitness ==
    /\ ddPc = "done"
    /\ Len(accumulatedQuestions) = 3
    /\ DedupKey(accumulatedQuestions[1]) = DedupKey(accumulatedQuestions[2])
    /\ DedupKey(accumulatedQuestions[3]) # DedupKey(accumulatedQuestions[1])
    /\ deduped = <<accumulatedQuestions[1], accumulatedQuestions[3]>>
    /\ Dedup(deduped) = deduped

====
